---- MODULE Spec2Model ----
(***************************************************************************)
(* Kasa reputation dashboard: scoring, snapshot selection and the          *)
(* fetch-all ingestion route.                                              *)
(*                                                                         *)
(* Ratings are integers in hundredths of a point (the review_snapshots     *)
(* columns are DECIMAL(4,2)): 850 is 8.50 on the 0-10 scale.  Arithmetic   *)
(* is exact; a quotient that the code does not round is kept as a          *)
(* fraction n/d.                                                           *)
(***************************************************************************)
EXTENDS Integers, Sequences, FiniteSets, TLC

VARIABLES
    input,      \* argument of the pure computation under check
    output,     \* its result
    op,         \* which computation produced output ("none" before the call)
    db,         \* review_snapshots table: sequence of rows in insertion order
    clock,      \* NOW() of the database
    call,       \* the fetch-all request in flight (or Idle)
    last        \* the last fetch-all response, with what the providers answered

pureVars == <<input, output, op>>
fetchVars == <<db, clock, call, last>>
vars == <<input, output, op, db, clock, call, last>>

----------------------------------------------------------------------------
(* JavaScript values *)

Num(n) == [kind |-> "number", n |-> n, d |-> 1]
Undefined == [kind |-> "undefined", n |-> 0, d |-> 1]
NaN == [kind |-> "NaN", n |-> 0, d |-> 1]

\* a / b in JavaScript for a >= 0, b >= 0, kept exact
JsDiv(a, b) ==
    IF b = 0
    THEN (IF a = 0 THEN NaN ELSE [kind |-> "Infinity", n |-> 0, d |-> 1])
    ELSE [kind |-> "number", n |-> a, d |-> b]

\* Math.round((n / d) * 10) / 10 in hundredths, d > 0: half rounds up
Round1(n, d) == 10 * ((2 * n + 10 * d) \div (20 * d))

platforms == <<"google", "tripadvisor", "booking", "expedia">>
Platform == {platforms[i] : i \in 1..Len(platforms)}

----------------------------------------------------------------------------
(* unnamed/part_014: score helpers *)

RECURSIVE SumReviewCount(_)
SumReviewCount(reviews) ==
    IF reviews = <<>> THEN 0
    ELSE reviews[1].review_count + SumReviewCount(Tail(reviews))

RECURSIVE SumRatingTimesCount(_)
SumRatingTimesCount(reviews) ==
    IF reviews = <<>> THEN 0
    ELSE reviews[1].rating * reviews[1].review_count
         + SumRatingTimesCount(Tail(reviews))

\* variant: the sum of rating * review_count is divided by the number of
\* reviews entries instead of the total review count
calculateWeightedScore_DividesByLength(reviews) ==
    LET totalWeight == SumReviewCount(reviews) IN
    IF totalWeight = 0 THEN Num(0)
    ELSE Num(Round1(SumRatingTimesCount(reviews), Len(reviews)))

\* variant: the quotient is cut to one decimal instead of rounded
calculateWeightedScore_Truncates(reviews) ==
    LET totalWeight == SumReviewCount(reviews) IN
    IF totalWeight = 0 THEN Num(0)
    ELSE Num(10 * ((SumRatingTimesCount(reviews) \div totalWeight) \div 10))

calculateWeightedScore(reviews) ==
    LET totalWeight == SumReviewCount(reviews) IN
    IF totalWeight = 0 THEN Num(0)
    ELSE LET weightedSum == SumRatingTimesCount(reviews) IN
         Num(Round1(weightedSum, totalWeight))

calculateGroupAggregateForDate(snapshots) ==
    IF Len(snapshots) = 0 THEN Undefined
    ELSE LET reviews == [i \in 1..Len(snapshots) |->
                            [rating |-> snapshots[i].rating,
                             review_count |-> snapshots[i].review_count]]
         IN calculateWeightedScore(reviews)

\* the for loop over hotelReviews: hotels without reviews are skipped
RECURSIVE hotelScoresOf(_)
hotelScoresOf(hotelReviews) ==
    IF hotelReviews = <<>> THEN <<>>
    ELSE LET hotel == hotelReviews[1] IN
         IF Len(hotel.reviews) = 0 THEN hotelScoresOf(Tail(hotelReviews))
         ELSE <<[score |-> calculateWeightedScore(hotel.reviews).n,
                 totalReviews |-> SumReviewCount(hotel.reviews)]>>
              \o hotelScoresOf(Tail(hotelReviews))

RECURSIVE SumTotalReviews(_)
SumTotalReviews(hotelScores) ==
    IF hotelScores = <<>> THEN 0
    ELSE hotelScores[1].totalReviews + SumTotalReviews(Tail(hotelScores))

RECURSIVE SumScoreTimesTotal(_)
SumScoreTimesTotal(hotelScores) ==
    IF hotelScores = <<>> THEN 0
    ELSE hotelScores[1].score * hotelScores[1].totalReviews
         + SumScoreTimesTotal(Tail(hotelScores))

\* variant: plain mean of the hotel scores, review totals ignored
calculateGroupAggregateScore_UnweightedMean(hotelReviews) ==
    IF Len(hotelReviews) = 0 THEN Undefined
    ELSE LET hotelScores == hotelScoresOf(hotelReviews) IN
         IF Len(hotelScores) = 0 THEN Undefined
         ELSE LET totalReviews == SumTotalReviews(hotelScores) IN
              IF totalReviews = 0 THEN Undefined
              ELSE LET scoreSum == SumTotalReviews(
                           [i \in 1..Len(hotelScores) |->
                               [totalReviews |-> hotelScores[i].score]])
                   IN Num(Round1(scoreSum, Len(hotelScores)))

\* variant: no test of the review total, a group without reviews scores 0
calculateGroupAggregateScore_ZeroWithoutReviews(hotelReviews) ==
    IF Len(hotelReviews) = 0 THEN Num(0)
    ELSE LET hotelScores == hotelScoresOf(hotelReviews)
             totalReviews == SumTotalReviews(hotelScores)
         IN IF totalReviews = 0 THEN Num(0)
            ELSE Num(Round1(SumScoreTimesTotal(hotelScores), totalReviews))

calculateGroupAggregateScore(hotelReviews) ==
    IF Len(hotelReviews) = 0 THEN Undefined
    ELSE LET hotelScores == hotelScoresOf(hotelReviews) IN
         IF Len(hotelScores) = 0 THEN Undefined
         ELSE LET totalReviews == SumTotalReviews(hotelScores) IN
              IF totalReviews = 0 THEN Undefined
              ELSE LET weightedSum == SumScoreTimesTotal(hotelScores) IN
                   Num(Round1(weightedSum, totalReviews))

----------------------------------------------------------------------------
(* Weighted-score calculator on bounded review lists *)

MaxLen == 3
ScoreRatings == {0, 800, 850, 900}
ScoreCounts == {0, 150, 200, 900}

Review == [rating : ScoreRatings, review_count : ScoreCounts]
ReviewLists == UNION {[1..n -> Review] : n \in 0..MaxLen}

\* what a provider search yielded for one platform; "none": not asked yet
NoAnswer == [kind |-> "none", rating |-> 0, reviews |-> 0]

\* body and status of a platform route's response
RouteResponse(status, success, rating, normalizedRating, reviewCount) ==
    [status |-> status, success |-> success, rating |-> rating,
     normalized_rating |-> normalizedRating, review_count |-> reviewCount]

RouteError(status) == RouteResponse(status, FALSE, 0, 0, 0)

\* one entry of the Promise.allSettled array while the promise is pending
Pending == [status |-> "pending", value |-> RouteError(0)]

\* platformResults[platform] = { success: false }
FailedResult ==
    [success |-> FALSE, rating |-> 0, original_rating |-> 0, review_count |-> 0]

Idle ==
    [hotel |-> "none",
     answers |-> [p \in Platform |-> NoAnswer],
     results |-> [p \in Platform |-> Pending]]

NoResponse ==
    [hotel |-> "none", status |-> 0, success |-> FALSE,
     answers |-> [p \in Platform |-> NoAnswer],
     results |-> [p \in Platform |-> FailedResult],
     saved_count |-> 0, weighted_score |-> Undefined, fetched_at |-> 0]

FetchQuiet ==
    /\ db = <<>>
    /\ clock = 0
    /\ call = Idle
    /\ last = NoResponse

InitScore ==
    /\ input \in ReviewLists
    /\ output = Undefined
    /\ op = "none"
    /\ FetchQuiet

CallWeightedScore ==
    /\ op = "none"
    /\ output' = calculateWeightedScore(input)
    /\ op' = "calculateWeightedScore"
    /\ UNCHANGED <<input, db, clock, call, last>>

CallGroupAggregateForDate ==
    /\ op = "none"
    /\ output' = calculateGroupAggregateForDate(input)
    /\ op' = "calculateGroupAggregateForDate"
    /\ UNCHANGED <<input, db, clock, call, last>>

NextScore == CallWeightedScore \/ CallGroupAggregateForDate

SpecScore == InitScore /\ [][NextScore]_vars

----------------------------------------------------------------------------
(* Properties of the weighted-score calculator *)

RECURSIVE TotalWeightUpTo(_, _)
TotalWeightUpTo(list, n) ==
    IF n = 0 THEN 0 ELSE list[n].review_count + TotalWeightUpTo(list, n - 1)

RECURSIVE WeightedSumUpTo(_, _)
WeightedSumUpTo(list, n) ==
    IF n = 0 THEN 0
    ELSE list[n].rating * list[n].review_count + WeightedSumUpTo(list, n - 1)

TotalWeight(list) == TotalWeightUpTo(list, Len(list))
WeightedSum(list) == WeightedSumUpTo(list, Len(list))

\* v (hundredths, a whole number of tenths) is num/den rounded to one decimal
IsRoundedToOneDecimal(v, num, den) ==
    /\ v % 10 = 0
    /\ (2 * (v \div 10) - 1) * 10 * den <= 2 * num
    /\ 2 * num < (2 * (v \div 10) + 1) * 10 * den

ScoreOps == {"calculateWeightedScore", "calculateGroupAggregateForDate"}

GoogleTripadvisorBooking ==
    <<[rating |-> 900, review_count |-> 900],
      [rating |-> 800, review_count |-> 200],
      [rating |-> 850, review_count |-> 150]>>

\* C1: the weighted-score calculator returns undefined, not 0, whenever its
\* input list is empty or the review counts of its inputs sum to zero.
C1_UndefinedWhenNoWeight ==
    (op \in ScoreOps /\ TotalWeight(input) = 0) => output = Undefined

\* C2: for a non-empty list with positive total review count the weighted
\* score is sum(rating * review_count) / sum(review_count), computed exactly
\* and rounded once to one decimal; the documented example gives 8.8.
C2_WeightedScoreRoundedOnce ==
    (op = "calculateWeightedScore" /\ TotalWeight(input) > 0) =>
        /\ output.kind = "number"
        /\ output.d = 1
        /\ IsRoundedToOneDecimal(output.n, WeightedSum(input), TotalWeight(input))
        /\ (input = GoogleTripadvisorBooking => output = Num(880))

C2_Witness ==
    /\ op = "calculateWeightedScore"
    /\ input = GoogleTripadvisorBooking
    /\ output = Num(880)

----------------------------------------------------------------------------
(* JavaScript Map: entries in insertion order *)

MapHas(m, key) == \E i \in 1..Len(m) : m[i].key = key

MapIndex(m, key) == CHOOSE i \in 1..Len(m) : m[i].key = key

MapGet(m, key) == m[MapIndex(m, key)].value

\* set() on a present key keeps the entry's position
MapSet(m, key, value) ==
    IF MapHas(m, key)
    THEN [m EXCEPT ![MapIndex(m, key)] = [key |-> key, value |-> value]]
    ELSE Append(m, [key |-> key, value |-> value])

MapValues(m) == [i \in 1..Len(m) |-> m[i].value]

----------------------------------------------------------------------------
(* Supabase queries on review_snapshots *)

\* the rows of a table (a set) as a list, in every possible order
AnyOrder(rows) ==
    LET n == Cardinality(rows)
    IN {f \in [1..n -> rows] : \A i, j \in 1..n : i # j => f[i] # f[j]}

\* every list that ORDER BY fetched_at DESC may return: rows with equal
\* fetched_at come in any order
OrderByFetchedAtDesc(rows) ==
    {f \in AnyOrder(rows) :
        \A i \in 1..Len(f) : i < Len(f) => f[i].fetched_at >= f[i + 1].fetched_at}

\* .in('hotel_id', hotelIds)
InHotelIds(rows, hotelIds) ==
    SelectSeq(rows, LAMBDA r : \E i \in 1..Len(hotelIds) : hotelIds[i] = r.hotel_id)

----------------------------------------------------------------------------
(* unnamed/part_002: group score card *)

SnapshotKey(snapshot) == <<snapshot.hotel_id, snapshot.platform>>

\* variant of the loop: a snapshot with an equal fetched_at replaces the
\* one kept so far
RECURSIVE getLatestSnapshotsFrom_LastTieWins(_, _)
getLatestSnapshotsFrom_LastTieWins(latestMap, snapshots) ==
    IF snapshots = <<>> THEN latestMap
    ELSE LET snapshot == snapshots[1]
             key == SnapshotKey(snapshot)
         IN IF \/ ~MapHas(latestMap, key)
               \/ snapshot.fetched_at >= MapGet(latestMap, key).fetched_at
            THEN getLatestSnapshotsFrom_LastTieWins(
                     MapSet(latestMap, key, snapshot), Tail(snapshots))
            ELSE getLatestSnapshotsFrom_LastTieWins(latestMap, Tail(snapshots))

RECURSIVE getLatestSnapshots_KeepsFirst(_, _)
\* variant: the first snapshot seen for a key is kept, timestamps not compared
getLatestSnapshots_KeepsFirst(latestMap, snapshots) ==
    IF snapshots = <<>> THEN latestMap
    ELSE LET snapshot == snapshots[1]
             key == SnapshotKey(snapshot)
         IN IF ~MapHas(latestMap, key)
            THEN getLatestSnapshots_KeepsFirst(MapSet(latestMap, key, snapshot),
                                               Tail(snapshots))
            ELSE getLatestSnapshots_KeepsFirst(latestMap, Tail(snapshots))

RECURSIVE getLatestSnapshotsFrom(_, _)
getLatestSnapshotsFrom(latestMap, snapshots) ==
    IF snapshots = <<>> THEN latestMap
    ELSE LET snapshot == snapshots[1]
             key == SnapshotKey(snapshot)
         IN IF \/ ~MapHas(latestMap, key)
               \/ snapshot.fetched_at > MapGet(latestMap, key).fetched_at
            THEN getLatestSnapshotsFrom(MapSet(latestMap, key, snapshot),
                                        Tail(snapshots))
            ELSE getLatestSnapshotsFrom(latestMap, Tail(snapshots))

getLatestSnapshots_LastTieWins(snapshots) ==
    getLatestSnapshotsFrom_LastTieWins(<<>>, snapshots)

getLatestSnapshots(snapshots) == getLatestSnapshotsFrom(<<>>, snapshots)

\* state of the platforms.forEach loop of buildHotelScoreData
RECURSIVE buildHotelScoreDataLoop(_, _, _, _)
buildHotelScoreDataLoop(hotel, latestSnapshots, i, acc) ==
    IF i > Len(platforms) THEN acc
    ELSE LET platform == platforms[i]
             key == <<hotel, platform>>
         IN IF MapHas(latestSnapshots, key)
               /\ MapGet(latestSnapshots, key).review_count > 0
            THEN LET snapshot == MapGet(latestSnapshots, key)
                     score == [rating |-> snapshot.rating,
                               review_count |-> snapshot.review_count]
                 IN buildHotelScoreDataLoop(hotel, latestSnapshots, i + 1,
                        [platformData |-> MapSet(acc.platformData, platform, score),
                         reviews |-> Append(acc.reviews, score),
                         lastUpdated |->
                            IF acc.lastUpdated = 0
                               \/ snapshot.fetched_at > acc.lastUpdated
                            THEN snapshot.fetched_at ELSE acc.lastUpdated])
            ELSE buildHotelScoreDataLoop(hotel, latestSnapshots, i + 1, acc)

\* last_updated 0 stands for undefined (fetched_at is always positive)
buildHotelScoreData(hotel, latestSnapshots) ==
    LET acc == buildHotelScoreDataLoop(hotel, latestSnapshots, 1,
                   [platformData |-> <<>>, reviews |-> <<>>, lastUpdated |-> 0])
    IN [hotel |-> hotel,
        platformData |-> acc.platformData,
        weighted_score |-> IF Len(acc.reviews) > 0
                           THEN calculateWeightedScore(acc.reviews)
                           ELSE Undefined,
        total_reviews |-> SumReviewCount(acc.reviews),
        last_updated |-> acc.lastUpdated]

\* reviews handed to calculateGroupAggregateScore for one row of hotelScores:
\* [hs.google && {...}, hs.tripadvisor && {...}, ...].filter(Boolean)
presentPlatformScores(hs) ==
    LET present == SelectSeq(platforms, LAMBDA p : MapHas(hs.platformData, p))
    IN [i \in 1..Len(present) |-> MapGet(hs.platformData, present[i])]

groupAggregate(hotelScores) ==
    calculateGroupAggregateScore(
        [i \in 1..Len(hotelScores) |->
            [hotel_id |-> hotelScores[i].hotel,
             reviews |-> presentPlatformScores(hotelScores[i])]])

\* a PlatformScore of an aggregate row, or undefined
AggregateScore(rating, reviewCount) ==
    [defined |-> TRUE, rating |-> rating, review_count |-> reviewCount]

NoAggregateScore == [defined |-> FALSE, rating |-> Undefined, review_count |-> 0]

\* scores.map(hs => hs[platform]).filter(isValidPlatformData)
validPlatformScores(platform, scores) ==
    LET having == SelectSeq(scores, LAMBDA hs :
                      /\ MapHas(hs.platformData, platform)
                      /\ MapGet(hs.platformData, platform).review_count > 0)
    IN [i \in 1..Len(having) |-> MapGet(having[i].platformData, platform)]

\* variant: the aggregate counts the hotels instead of summing their reviews
calculatePlatformAggregate_CountsHotels(platform, scores) ==
    LET platformReviews == validPlatformScores(platform, scores) IN
    IF Len(platformReviews) = 0 THEN NoAggregateScore
    ELSE AggregateScore(calculateWeightedScore(platformReviews),
                        Len(platformReviews))

calculatePlatformAggregate(platform, scores) ==
    LET platformReviews == validPlatformScores(platform, scores) IN
    IF Len(platformReviews) = 0 THEN NoAggregateScore
    ELSE LET totalReviews == SumReviewCount(platformReviews)
             weightedScore == calculateWeightedScore(platformReviews)
         IN AggregateScore(weightedScore, totalReviews)

\* loadGroupData for a group of the given hotels, then the values derived
\* from hotelScores on render; ordered is the answer of the snapshot query
GroupScoreCard(hotels, ordered) ==
    LET reviewSnapshots == IF Len(hotels) > 0 THEN InHotelIds(ordered, hotels)
                           ELSE <<>>
        latestSnapshots == getLatestSnapshots(reviewSnapshots)
        hotelScores == [i \in 1..Len(hotels) |->
                           buildHotelScoreData(hotels[i], latestSnapshots)]
    IN [latestSnapshots |-> latestSnapshots,
        hotelScores |-> hotelScores,
        groupAggregate |-> groupAggregate(hotelScores),
        platformAggregates |->
            [p \in Platform |-> calculatePlatformAggregate(p, hotelScores)]]

----------------------------------------------------------------------------
(* app/dashboard/page.tsx: loadHotels *)

\* "Get latest per platform": the first snapshot of each platform in the list
RECURSIVE firstPerPlatform(_, _)
firstPerPlatform(platformMap, hotelSnaps) ==
    IF hotelSnaps = <<>> THEN platformMap
    ELSE LET snap == hotelSnaps[1] IN
         IF ~MapHas(platformMap, snap.platform)
         THEN firstPerPlatform(MapSet(platformMap, snap.platform, snap),
                               Tail(hotelSnaps))
         ELSE firstPerPlatform(platformMap, Tail(hotelSnaps))

\* "Group by hotel": hotel ids in order of first appearance
RECURSIVE groupByHotel(_, _)
groupByHotel(hotelSnapshots, snapshots) ==
    IF snapshots = <<>> THEN hotelSnapshots
    ELSE LET snapshot == snapshots[1]
             sofar == IF MapHas(hotelSnapshots, snapshot.hotel_id)
                      THEN MapGet(hotelSnapshots, snapshot.hotel_id)
                      ELSE <<>>
         IN groupByHotel(MapSet(hotelSnapshots, snapshot.hotel_id,
                                Append(sofar, snapshot)),
                         Tail(snapshots))

\* platformMap.forEach of loadHotels
RECURSIVE loadHotelsLoop(_, _, _)
loadHotelsLoop(platformMap, i, acc) ==
    IF i > Len(platformMap) THEN acc
    ELSE LET platform == platformMap[i].key
             snap == platformMap[i].value
             score == [rating |-> snap.rating, reviewCount |-> snap.review_count]
         IN loadHotelsLoop(platformMap, i + 1,
                [platformData |-> MapSet(acc.platformData, platform, score),
                 reviews |-> Append(acc.reviews,
                                [rating |-> snap.rating,
                                 review_count |-> snap.review_count]),
                 latestUpdate |->
                    IF acc.latestUpdate = 0 \/ snap.fetched_at > acc.latestUpdate
                    THEN snap.fetched_at ELSE acc.latestUpdate])

\* the hotelReview object of one hotel; latestUpdate 0 stands for null
hotelReviewOf(hotelSnaps) ==
    LET platformMap == firstPerPlatform(<<>>, hotelSnaps)
        acc == loadHotelsLoop(platformMap, 1,
                   [platformData |-> <<>>, reviews |-> <<>>, latestUpdate |-> 0])
    IN [platformMap |-> platformMap,
        platformData |-> acc.platformData,
        weighted_score |->
            IF Len(acc.reviews) > 0
            THEN JsDiv(SumRatingTimesCount(acc.reviews),
                       SumReviewCount(acc.reviews))
            ELSE Undefined,
        platform_count |-> Len(platformMap),
        last_updated |-> acc.latestUpdate]

\* reviewMap built by loadHotels; ordered is the answer of the snapshot query
loadHotels(hotels, ordered) ==
    IF Len(hotels) > 0
    THEN LET snapshots == InHotelIds(ordered, hotels)
             hotelSnapshots == groupByHotel(<<>>, snapshots)
         IN [i \in 1..Len(hotelSnapshots) |->
                [key |-> hotelSnapshots[i].key,
                 value |-> hotelReviewOf(hotelSnapshots[i].value)]]
    ELSE <<>>
----------------------------------------------------------------------------
(* unnamed/part_000: handleExportCurrent of the group page *)

\* one hotel's entry of reviewMap; the loop is the one of loadHotels, copied
exportHotelReviewOf(hotelSnaps) ==
    LET platformMap == firstPerPlatform(<<>>, hotelSnaps)
        acc == loadHotelsLoop(platformMap, 1,
                   [platformData |-> <<>>, reviews |-> <<>>, latestUpdate |-> 0])
    IN [platformMap |-> platformMap,
        platformData |-> acc.platformData,
        weighted_score |->
            IF Len(acc.reviews) > 0
            THEN JsDiv(SumRatingTimesCount(acc.reviews),
                       SumReviewCount(acc.reviews))
            ELSE Undefined,
        last_updated |-> acc.latestUpdate]

\* state of the aggregate accumulators after hotels.forEach reached hotel i;
\* nan: overallWeighted.totalRating is NaN
RECURSIVE exportAggregatesLoop(_, _, _)
exportAggregatesLoop(hotels, reviewMap, i) ==
    IF i = 0
    THEN [perPlatform |-> [p \in Platform |-> [totalRating |-> 0, totalCount |-> 0]],
          overallWeighted |-> [totalRating |-> 0, totalCount |-> 0, nan |-> FALSE]]
    ELSE LET acc == exportAggregatesLoop(hotels, reviewMap, i - 1) IN
         IF ~MapHas(reviewMap, hotels[i]) THEN acc
         ELSE LET reviews == MapGet(reviewMap, hotels[i])
                  countOf(p) == IF MapHas(reviews.platformData, p)
                                THEN MapGet(reviews.platformData, p).reviewCount
                                ELSE 0
                  totalReviews == countOf("google") + countOf("tripadvisor")
                                  + countOf("booking") + countOf("expedia")
                  score == reviews.weighted_score
              IN [perPlatform |->
                      [p \in Platform |->
                          IF MapHas(reviews.platformData, p)
                          THEN LET ps == MapGet(reviews.platformData, p) IN
                               [totalRating |-> acc.perPlatform[p].totalRating
                                                + ps.rating * ps.reviewCount,
                                totalCount |-> acc.perPlatform[p].totalCount
                                               + ps.reviewCount]
                          ELSE acc.perPlatform[p]],
                  overallWeighted |->
                      IF score.kind = "undefined" THEN acc.overallWeighted
                      ELSE [totalRating |->
                                IF score.kind = "number"
                                THEN acc.overallWeighted.totalRating
                                     + (score.n * totalReviews) \div score.d
                                ELSE acc.overallWeighted.totalRating,
                            totalCount |-> acc.overallWeighted.totalCount
                                           + totalReviews,
                            nan |-> acc.overallWeighted.nan
                                    \/ score.kind # "number"]]

\* the [GROUP AGGREGATE] row pushed after the hotel rows
exportAggregateRow(hotels, reviewMap) ==
    LET acc == exportAggregatesLoop(hotels, reviewMap, Len(hotels))
        overall == acc.overallWeighted
    IN [platforms |->
            [p \in Platform |->
                IF acc.perPlatform[p].totalCount > 0
                THEN AggregateScore(JsDiv(acc.perPlatform[p].totalRating,
                                          acc.perPlatform[p].totalCount),
                                    acc.perPlatform[p].totalCount)
                ELSE NoAggregateScore],
        weightedScore |->
            IF overall.totalCount > 0
            THEN (IF overall.nan THEN NaN
                  ELSE JsDiv(overall.totalRating, overall.totalCount))
            ELSE Undefined]

\* reviewMap and the per-hotel rows of exportData; a hotel without entry in
\* reviewMap exports no platform and an undefined weightedScore
handleExportCurrent(hotels, ordered) ==
    LET snapshots == InHotelIds(ordered, hotels)
        hotelSnapshots == groupByHotel(<<>>, snapshots)
        reviewMap == [i \in 1..Len(hotelSnapshots) |->
                         [key |-> hotelSnapshots[i].key,
                          value |-> exportHotelReviewOf(hotelSnapshots[i].value)]]
    IN [reviewMap |-> reviewMap,
        aggregateRow |-> exportAggregateRow(hotels, reviewMap),
        exportData |->
            [i \in 1..Len(hotels) |->
                IF MapHas(reviewMap, hotels[i])
                THEN LET reviews == MapGet(reviewMap, hotels[i]) IN
                     [name |-> hotels[i],
                      platformData |-> reviews.platformData,
                      weightedScore |-> reviews.weighted_score,
                      lastUpdated |-> reviews.last_updated]
                ELSE [name |-> hotels[i],
                      platformData |-> <<>>,
                      weightedScore |-> Undefined,
                      lastUpdated |-> 0]]]

----------------------------------------------------------------------------
(* unnamed/part_010: loadHotelData of the hotel page *)

\* useState defaults, kept when the hotel has no snapshot; now is
\* new Date() at mount
initialHotelState(id, now) ==
    [hotel |-> id,
     platformMap |-> <<>>,
     scores |-> <<>>,
     weightedScore |-> Num(0),
     lastUpdated |-> now]

\* ordered is the answer of the query .eq('hotel_id', id), newest first
loadHotelData(id, ordered, now) ==
    LET snapshots == SelectSeq(ordered, LAMBDA r : r.hotel_id = id) IN
    IF Len(snapshots) > 0
    THEN LET platformMap == firstPerPlatform(<<>>, snapshots)
             values == MapValues(platformMap)
             scoresData == [i \in 1..Len(values) |->
                               [platform |-> values[i].platform,
                                rating |-> values[i].rating,
                                reviewCount |-> values[i].review_count]]
             asReviews == [i \in 1..Len(values) |->
                              [rating |-> values[i].rating,
                               review_count |-> values[i].review_count]]
         IN [hotel |-> id,
             platformMap |-> platformMap,
             scores |-> scoresData,
             weightedScore |->
                IF Len(scoresData) > 0
                THEN JsDiv(SumRatingTimesCount(asReviews),
                           SumReviewCount(asReviews))
                ELSE Num(0),
             lastUpdated |-> snapshots[1].fetched_at]
    ELSE initialHotelState(id, now)

----------------------------------------------------------------------------
(* unnamed/part_009: loadGroups of the groups page *)

RECURSIVE allHotelIdsOf(_)
allHotelIdsOf(groups) ==
    IF groups = <<>> THEN {}
    ELSE {groups[1][i] : i \in 1..Len(groups[1])} \cup allHotelIdsOf(Tail(groups))

\* a group is the list of its member hotels; the result is aggregate_score
\* of each group, in the order of groups
loadGroups(groups, ordered) ==
    LET allHotelIds == allHotelIdsOf(groups)
        reviewSnapshots ==
            IF allHotelIds # {}
            THEN SelectSeq(ordered, LAMBDA r : r.hotel_id \in allHotelIds)
            ELSE <<>>
        latestSnapshots == getLatestSnapshots(reviewSnapshots)
        latestOf(hotelId) ==
            SelectSeq(MapValues(latestSnapshots), LAMBDA sn : sn.hotel_id = hotelId)
        reviewsOf(hotelId) ==
            [i \in 1..Len(latestOf(hotelId)) |->
                [rating |-> latestOf(hotelId)[i].rating,
                 review_count |-> latestOf(hotelId)[i].review_count]]
    IN [g \in 1..Len(groups) |->
           [latestSnapshots |-> latestSnapshots,
            member_count |-> Len(groups[g]),
            aggregate_score |->
                calculateGroupAggregateScore(
                    [i \in 1..Len(groups[g]) |->
                        [hotel_id |-> groups[g][i],
                         reviews |-> reviewsOf(groups[g][i])]])]]
----------------------------------------------------------------------------
(* The views over a bounded snapshot log *)

MaxLog == 3

Hotels == <<"h1", "h2">>
Groups == <<Hotels, <<"h1">>, <<"h2">>, <<>>>>

LogKeys == {<<"h1", "google">>, <<"h1", "booking">>, <<"h2", "google">>}
LogTimes == 1..MaxLog
\* review counts a row of the hotel can carry
LogCounts(hotel) == {0, IF hotel = "h1" THEN 100 ELSE 300}

\* the rating stored for a platform at a time: snapshots of one key differ
LogRating(platform, t) ==
    IF platform = "google" THEN 700 + 50 * t ELSE 950 - 100 * t

LogRows ==
    UNION {{[hotel_id |-> k[1], platform |-> k[2],
             rating |-> LogRating(k[2], t),
             review_count |-> c, fetched_at |-> t] :
                t \in LogTimes, c \in LogCounts(k[1])} : k \in LogKeys}

RECURSIVE SubsetsUpTo(_, _)
\* the subsets of S with at most k elements
SubsetsUpTo(S, k) ==
    IF k = 0 THEN {{}}
    ELSE LET smaller == SubsetsUpTo(S, k - 1)
         IN smaller \cup {T \cup {x} : T \in smaller, x \in S}

\* contents of review_snapshots: a table is a set of rows
Logs == SubsetsUpTo(LogRows, MaxLog)

Now == MaxLog + 1

InitViews ==
    /\ input \in Logs
    /\ output = Undefined
    /\ op = "none"
    /\ FetchQuiet

View(name, result) ==
    /\ op' = name
    /\ output' = result
    /\ UNCHANGED <<input, db, clock, call, last>>

ViewGroupScoreCard ==
    /\ op = "none"
    /\ \E ordered \in OrderByFetchedAtDesc(input) :
          View("GroupScoreCard", GroupScoreCard(Hotels, ordered))

ViewLoadHotels ==
    /\ op = "none"
    /\ \E ordered \in OrderByFetchedAtDesc(input) :
          View("loadHotels", loadHotels(Hotels, ordered))

ViewLoadHotelData ==
    /\ op = "none"
    /\ \E ordered \in OrderByFetchedAtDesc(input) :
          \E i \in 1..Len(Hotels) :
              View("loadHotelData", loadHotelData(Hotels[i], ordered, Now))

ViewHandleExportCurrent ==
    /\ op = "none"
    /\ \E ordered \in OrderByFetchedAtDesc(input) :
          View("handleExportCurrent", handleExportCurrent(Hotels, ordered))

ViewLoadGroups ==
    /\ op = "none"
    /\ \E ordered \in OrderByFetchedAtDesc(input) :
          View("loadGroups", loadGroups(Groups, ordered))

\* getLatestSnapshots is a function of a list: here on the rows in any order
ViewGetLatestSnapshots ==
    /\ op = "none"
    /\ \E snapshots \in AnyOrder(input) :
          View("getLatestSnapshots",
               [snapshots |-> snapshots,
                latestSnapshots |-> getLatestSnapshots(snapshots)])

NextViews ==
    \/ ViewGroupScoreCard
    \/ ViewLoadHotels
    \/ ViewLoadHotelData
    \/ ViewHandleExportCurrent
    \/ ViewLoadGroups
    \/ ViewGetLatestSnapshots

SpecViews == InitViews /\ [][NextViews]_vars
----------------------------------------------------------------------------
(* Properties of the latest-snapshot selection and of the hotel composites *)

RowsOfKey(rows, hotel, platform) ==
    {r \in rows : r.hotel_id = hotel /\ r.platform = platform}

DistinctTimesPerKey(rows) ==
    \A r1, r2 \in rows :
        (r1 # r2 /\ SnapshotKey(r1) = SnapshotKey(r2)) => r1.fetched_at # r2.fetched_at

IsNewestOfKey(r, rows) ==
    /\ r \in rows
    /\ \A r2 \in RowsOfKey(rows, r.hotel_id, r.platform) : r2.fetched_at <= r.fetched_at

HotelSet == {Hotels[i] : i \in 1..Len(Hotels)}

\* hotels whose latest snapshots the last view selected
CoveredHotels ==
    IF op = "loadHotelData" THEN {output.hotel}
    ELSE IF op \in {"getLatestSnapshots", "GroupScoreCard", "loadHotels",
                    "handleExportCurrent", "loadGroups"}
         THEN HotelSet
         ELSE {}

\* the latest-snapshot map of one hotel in the last view, keyed by platform
PlatformMapOf(hotel) ==
    LET byKey(latestSnapshots) ==
            LET mine == SelectSeq(latestSnapshots, LAMBDA e : e.key[1] = hotel)
            IN [i \in 1..Len(mine) |-> [key |-> mine[i].key[2], value |-> mine[i].value]]
        byHotel(reviewMap) ==
            IF MapHas(reviewMap, hotel) THEN MapGet(reviewMap, hotel).platformMap
            ELSE <<>>
    IN CASE op = "getLatestSnapshots" -> byKey(output.latestSnapshots)
         [] op = "GroupScoreCard" -> byKey(output.latestSnapshots)
         [] op = "loadGroups" -> byKey(output[1].latestSnapshots)
         [] op = "loadHotels" -> byHotel(output)
         [] op = "handleExportCurrent" -> byHotel(output.reviewMap)
         [] op = "loadHotelData" -> output.platformMap

\* C3: for every (hotel, platform) key the snapshot selected as latest is the
\* one with the greatest fetched_at among the snapshots of that key, whatever
\* the order of the list, when the timestamps of a key are distinct.
C3_LatestIsNewest ==
    DistinctTimesPerKey(input) =>
        \A hotel \in CoveredHotels : \A platform \in Platform :
            LET selected == PlatformMapOf(hotel) IN
            IF RowsOfKey(input, hotel, platform) = {}
            THEN ~MapHas(selected, platform)
            ELSE /\ MapHas(selected, platform)
                 /\ MapGet(selected, platform).hotel_id = hotel
                 /\ MapGet(selected, platform).platform = platform
                 /\ IsNewestOfKey(MapGet(selected, platform), input)

LogRow(hotel, platform, t, c) ==
    [hotel_id |-> hotel, platform |-> platform, rating |-> LogRating(platform, t),
     review_count |-> c, fetched_at |-> t]

\* the list (A, google, t=1), (A, google, t=3), (A, google, t=2)
C3_Witness ==
    /\ op = "getLatestSnapshots"
    /\ output.snapshots = <<LogRow("h1", "google", 1, 100),
                            LogRow("h1", "google", 3, 100),
                            LogRow("h1", "google", 2, 100)>>
    /\ MapGet(output.latestSnapshots, <<"h1", "google">>).fetched_at = 3
\* the latest snapshots of a hotel that carry reviews
SurvivingOf(hotel) ==
    LET selected == PlatformMapOf(hotel)
    IN {selected[i].value : i \in {j \in 1..Len(selected) : selected[j].value.review_count > 0}}

RECURSIVE CountSum(_)
CountSum(rows) ==
    IF rows = {} THEN 0
    ELSE LET r == CHOOSE x \in rows : TRUE
         IN r.review_count + CountSum(rows \ {r})

RECURSIVE RatingCountSum(_)
RatingCountSum(rows) ==
    IF rows = {} THEN 0
    ELSE LET r == CHOOSE x \in rows : TRUE
         IN r.rating * r.review_count + RatingCountSum(rows \ {r})

\* places where the last view built the composite score of a hotel
CompositeSites == {"GroupScoreCard", "loadHotels", "handleExportCurrent", "loadHotelData"}

IndexOfHotel(hotel) == CHOOSE i \in 1..Len(Hotels) : Hotels[i] = hotel

\* review counts of the per-platform scores shown for a hotel by the last view
PerPlatformCounts(hotel) ==
    LET counts(platformData) ==
            [i \in 1..Len(platformData) |-> platformData[i].value.reviewCount]
    IN CASE op = "GroupScoreCard" ->
                LET platformData == output.hotelScores[IndexOfHotel(hotel)].platformData
                IN [i \in 1..Len(platformData) |-> platformData[i].value.review_count]
         [] op = "loadHotels" ->
                IF MapHas(output, hotel)
                THEN counts(MapGet(output, hotel).platformData) ELSE <<>>
         [] op = "handleExportCurrent" ->
                counts(output.exportData[IndexOfHotel(hotel)].platformData)
         [] op = "loadHotelData" ->
                [i \in 1..Len(output.scores) |-> output.scores[i].reviewCount]

\* weighted score of a hotel in the last view
WeightedScoreOf(hotel) ==
    CASE op = "GroupScoreCard" -> output.hotelScores[IndexOfHotel(hotel)].weighted_score
      [] op = "loadHotels" ->
            IF MapHas(output, hotel) THEN MapGet(output, hotel).weighted_score
            ELSE Undefined
      [] op = "handleExportCurrent" ->
            output.exportData[IndexOfHotel(hotel)].weightedScore
      [] op = "loadHotelData" -> output.weightedScore

\* js is the number num / den, rounded to one decimal where the view rounds
IsScoreOf(js, num, den) ==
    /\ js.kind = "number"
    /\ IF op = "GroupScoreCard"
       THEN js.d = 1 /\ IsRoundedToOneDecimal(js.n, num, den)
       ELSE js.n * den = num * js.d

BuiltHotels(sites) == IF op \in sites THEN CoveredHotels ELSE {}

\* C4: a latest snapshot with review_count 0 never appears among a hotel's
\* per-platform scores and never contributes to its weighted score or total
\* review count, wherever the composite is built.
C4_ZeroCountPlatformExcluded ==
    \A hotel \in BuiltHotels({"GroupScoreCard", "loadHotels", "handleExportCurrent"}) :
        LET counts == PerPlatformCounts(hotel)
            surviving == SurvivingOf(hotel)
        IN /\ \A i \in 1..Len(counts) : counts[i] > 0
           /\ Len(counts) = Cardinality(surviving)
           /\ IF surviving = {}
              THEN WeightedScoreOf(hotel) = Undefined
              ELSE IsScoreOf(WeightedScoreOf(hotel),
                             RatingCountSum(surviving), CountSum(surviving))
           /\ op = "GroupScoreCard" =>
                 output.hotelScores[IndexOfHotel(hotel)].total_reviews
                    = CountSum(surviving)

\* C5: a hotel without surviving platform score (no snapshot, or every latest
\* snapshot with review_count 0) gets weighted_score undefined and
\* total_reviews 0, never 0, NaN or an exception.
C5_NoSurvivingScoreIsUndefined ==
    \A hotel \in BuiltHotels({"GroupScoreCard", "loadHotels", "loadHotelData"}) :
        SurvivingOf(hotel) = {} =>
            /\ WeightedScoreOf(hotel) = Undefined
            /\ op = "GroupScoreCard" =>
                  output.hotelScores[IndexOfHotel(hotel)].total_reviews = 0

\* the member hotels' latest snapshots of a platform that carry reviews
SurvivingScores(platform) ==
    UNION {{r \in SurvivingOf(hotel) : r.platform = platform} : hotel \in HotelSet}

\* places where the last view built the per-platform aggregates of the group
AggregateSites == {"GroupScoreCard", "handleExportCurrent"}

PlatformAggregateOf(platform) ==
    CASE op = "GroupScoreCard" -> output.platformAggregates[platform]
      [] op = "handleExportCurrent" -> output.aggregateRow.platforms[platform]

\* C11: for each platform the aggregate of the group is undefined when no
\* member hotel has a latest snapshot of that platform with reviews;
\* otherwise its review count is the sum of the review counts of those
\* snapshots and its rating is sum(rating * count) / sum(count) over exactly
\* those snapshots (the score card shows the quotient rounded to one
\* decimal by the score calculator, the export keeps it exact).
C11_PlatformAggregateOverSurvivors ==
    op \in AggregateSites =>
        \A platform \in Platform :
            LET surviving == SurvivingScores(platform)
                aggregate == PlatformAggregateOf(platform)
            IN IF surviving = {} THEN aggregate = NoAggregateScore
               ELSE /\ aggregate.defined
                    /\ aggregate.review_count = CountSum(surviving)
                    /\ aggregate.rating.kind = "number"
                    /\ IF op = "GroupScoreCard"
                       THEN aggregate.rating =
                                Num(Round1(RatingCountSum(surviving),
                                           CountSum(surviving)))
                       ELSE aggregate.rating.n * CountSum(surviving)
                                = RatingCountSum(surviving) * aggregate.rating.d

\* two hotels with different google ratings and review counts 100 and 300,
\* and a latest booking snapshot without reviews
C11_Witness ==
    /\ op \in AggregateSites
    /\ \E a, b \in SurvivingScores("google") :
           /\ a.hotel_id = "h1" /\ b.hotel_id = "h2"
           /\ a.rating # b.rating
    /\ PlatformAggregateOf("google").review_count = 400
    /\ \E r \in input : r.platform = "booking" /\ r.review_count = 0
    /\ ~PlatformAggregateOf("booking").defined

\* what a view shows in place of a weighted score: a placeholder, nothing,
\* or a number with one decimal (tenths in hundredths of a point)
ShownText(text) == [text |-> text, tenths |-> 0]

\* score.toFixed(1) of a JavaScript number
ShownNumber(score) ==
    IF score.kind = "number"
    THEN [text |-> "number", tenths |-> Round1(score.n, score.d)]
    ELSE ShownText(score.kind)

\* truthiness of a JavaScript number or undefined
Truthy(value) == value.kind = "Infinity" \/ (value.kind = "number" /\ value.n # 0)

\* HotelScoreCard, weighted score section
HotelScoreCard(weightedScore, isLoading) ==
    IF isLoading /\ ~Truthy(weightedScore) THEN ShownText("skeleton")
    ELSE IF weightedScore # Undefined THEN ShownNumber(weightedScore)
    ELSE ShownText("")

\* lib/export-helpers.ts: formatRating
formatRating(rating) ==
    IF rating # Undefined THEN ShownNumber(rating) ELSE ShownText("-")

\* GroupScoreCard: WeightedScoreCell
WeightedScoreCell(score) ==
    IF score = Undefined THEN ShownText("N/A") ELSE ShownNumber(score)

\* dashboard table, Overall Score cell
OverallScoreCell(weighted_score) ==
    IF Truthy(weighted_score) THEN ShownNumber(weighted_score)
    ELSE ShownText("-")

\* what the last view and its CSV export show as weighted score of a hotel
ShownScoresOf(hotel) ==
    LET score == WeightedScoreOf(hotel) IN
    CASE op = "GroupScoreCard" -> {WeightedScoreCell(score)}
      [] op = "loadHotels" -> {OverallScoreCell(score), formatRating(score)}
      [] op = "handleExportCurrent" -> {formatRating(score)}
      [] op = "loadHotelData" ->
            {HotelScoreCard(score, FALSE), formatRating(score)}

\* what the last view shows as overall score of the group
ShownGroupScores ==
    CASE op = "GroupScoreCard" -> {WeightedScoreCell(output.groupAggregate)}
      [] op = "handleExportCurrent" ->
            {formatRating(output.aggregateRow.weightedScore)}
      [] OTHER -> {}

\* placeholder texts and the empty rendering
EmptyTexts == {ShownText("-"), ShownText("N/A"), ShownText("")}

\* C17: whatever a view or its export shows as weighted score of a hotel
\* without surviving review data, or of a group none of whose hotels has
\* any, is a placeholder or nothing at all, never a number.
C17_NoDataShowsPlaceholder ==
    /\ \A hotel \in BuiltHotels(CompositeSites) :
           SurvivingOf(hotel) = {} => ShownScoresOf(hotel) \subseteq EmptyTexts
    /\ (op \in AggregateSites /\ \A hotel \in HotelSet : SurvivingOf(hotel) = {})
           => ShownGroupScores \subseteq EmptyTexts

\* the rating and review count of each row, in some order
RECURSIVE ReviewsOf(_)
ReviewsOf(rows) ==
    IF rows = {} THEN <<>>
    ELSE LET r == CHOOSE x \in rows : TRUE
         IN <<[rating |-> r.rating, review_count |-> r.review_count]>>
            \o ReviewsOf(rows \ {r})

\* a and b are the same JavaScript value
SameValue(a, b) ==
    /\ a.kind = b.kind
    /\ a.kind = "number" => a.n * b.d = b.n * a.d

\* C21: wherever the weighted score of a hotel is built (dashboard list,
\* hotel page, group export, group score table) it is the value that
\* calculateWeightedScore gives for the hotel's surviving latest scores,
\* and it is undefined when no score survives.
C21_SameWeightedScoreEverywhere ==
    \A hotel \in BuiltHotels(CompositeSites) :
        LET surviving == SurvivingOf(hotel)
        IN  SameValue(WeightedScoreOf(hotel),
                      IF surviving = {} THEN Undefined
                      ELSE calculateWeightedScore(ReviewsOf(surviving)))

\* last_updated of a hotel in the last view; 0 stands for undefined or null
LastUpdatedOf(hotel) ==
    CASE op = "GroupScoreCard" ->
            output.hotelScores[IndexOfHotel(hotel)].last_updated
      [] op = "loadHotels" ->
            IF MapHas(output, hotel) THEN MapGet(output, hotel).last_updated
            ELSE 0
      [] op = "loadHotelData" -> output.lastUpdated

LastUpdatedSites == {"GroupScoreCard", "loadHotels", "loadHotelData"}

\* C24: the last_updated of a hotel is the greatest fetched_at among its
\* surviving latest snapshots (the latest snapshots with reviews), and is
\* absent when none survives.
C24_LastUpdatedOverSurvivors ==
    \A hotel \in BuiltHotels(LastUpdatedSites) :
        LET surviving == SurvivingOf(hotel)
        IN  IF surviving = {}
            THEN LastUpdatedOf(hotel) = 0
            ELSE /\ \E s \in surviving : s.fetched_at = LastUpdatedOf(hotel)
                 /\ \A s \in surviving : s.fetched_at <= LastUpdatedOf(hotel)

\* positions in the list of the snapshots of a key with the greatest
\* fetched_at of that key
NewestPositions(snapshots, key) ==
    {i \in 1..Len(snapshots) :
        /\ SnapshotKey(snapshots[i]) = key
        /\ \A j \in 1..Len(snapshots) :
               SnapshotKey(snapshots[j]) = key =>
                   snapshots[j].fetched_at <= snapshots[i].fetched_at}

\* C25: among the snapshots of one (hotel, platform) key with the same,
\* greatest fetched_at, getLatestSnapshots keeps the one that comes first
\* in its input list, whatever follows it.
C25_FirstOfTiedSnapshotsKept ==
    op = "getLatestSnapshots" =>
        \A i \in 1..Len(output.latestSnapshots) :
            LET entry == output.latestSnapshots[i]
                newest == NewestPositions(output.snapshots, entry.key)
            IN  /\ newest # {}
                /\ \E first \in newest :
                       /\ \A other \in newest : first <= other
                       /\ entry.value = output.snapshots[first]

\* two snapshots of h1 on google fetched at the same time, the first of
\* the list kept
C25_Witness ==
    /\ op = "getLatestSnapshots"
    /\ Len(output.snapshots) >= 2
    /\ output.snapshots[1] = LogRow("h1", "google", 3, 0)
    /\ output.snapshots[2] = LogRow("h1", "google", 3, 100)
    /\ MapGet(output.latestSnapshots, <<"h1", "google">>) = output.snapshots[1]

----------------------------------------------------------------------------
(* Group aggregate on bounded lists of hotels *)

MaxHotels == 2
MaxHotelReviews == 2

GroupPairs ==
    {[rating |-> 850, review_count |-> 1000],
     [rating |-> 750, review_count |-> 500],
     [rating |-> 900, review_count |-> 0]}

HotelReviewLists == UNION {[1..n -> GroupPairs] : n \in 0..MaxHotelReviews}

\* the reviews of each member hotel, in the order of the members
GroupInputs == UNION {[1..n -> HotelReviewLists] : n \in 0..MaxHotels}

AsHotelReviews(reviewLists) ==
    [i \in 1..Len(reviewLists) |-> [hotel_id |-> i, reviews |-> reviewLists[i]]]

InitGroup ==
    /\ input \in GroupInputs
    /\ output = Undefined
    /\ op = "none"
    /\ FetchQuiet

CallGroupAggregateScore ==
    /\ op = "none"
    /\ output' = calculateGroupAggregateScore(AsHotelReviews(input))
    /\ op' = "calculateGroupAggregateScore"
    /\ UNCHANGED <<input, db, clock, call, last>>

NextGroup == CallGroupAggregateScore

SpecGroup == InitGroup /\ [][NextGroup]_vars

\* the one-decimal weighted score of a hotel with reviews
OneDecimalScore(reviews) ==
    CHOOSE v \in {10 * k : k \in 0..100} :
        IsRoundedToOneDecimal(v, WeightedSum(reviews), TotalWeight(reviews))

RECURSIVE GroupTotalUpTo(_, _)
GroupTotalUpTo(reviewLists, n) ==
    IF n = 0 THEN 0
    ELSE TotalWeight(reviewLists[n]) + GroupTotalUpTo(reviewLists, n - 1)

RECURSIVE GroupWeightedUpTo(_, _)
GroupWeightedUpTo(reviewLists, n) ==
    IF n = 0 THEN 0
    ELSE (IF TotalWeight(reviewLists[n]) > 0
          THEN OneDecimalScore(reviewLists[n]) * TotalWeight(reviewLists[n])
          ELSE 0)
         + GroupWeightedUpTo(reviewLists, n - 1)

GroupTotal(reviewLists) == GroupTotalUpTo(reviewLists, Len(reviewLists))
GroupWeighted(reviewLists) == GroupWeightedUpTo(reviewLists, Len(reviewLists))

TwoHotelExample ==
    <<<<[rating |-> 850, review_count |-> 1000]>>,
      <<[rating |-> 750, review_count |-> 500]>>>>

WithoutIndex(list, i) ==
    [j \in 1..(Len(list) - 1) |-> IF j < i THEN list[j] ELSE list[j + 1]]

SetMin(S) == CHOOSE x \in S : \A y \in S : x <= y
SetMax(S) == CHOOSE x \in S : \A y \in S : x >= y

\* ratings of the entries that carry reviews
WeightedRatings(reviews) ==
    {reviews[k].rating : k \in {j \in 1..Len(reviews) : reviews[j].review_count > 0}}

\* one-decimal scores of the member hotels that carry reviews
MemberScores(reviewLists) ==
    {calculateWeightedScore(reviewLists[i]).n :
        i \in {j \in 1..Len(reviewLists) : TotalWeight(reviewLists[j]) > 0}}

\* C30: the weighted score of a hotel with reviews lies between the least
\* and the greatest rating among its entries with a positive review count,
\* up to the rounding to one decimal, and within 0 and 10; a defined group
\* aggregate lies between the least and the greatest weighted score of the
\* member hotels with reviews.
C30_ScoreWithinRatings ==
    op = "calculateGroupAggregateScore" =>
        /\ \A i \in 1..Len(input) :
               TotalWeight(input[i]) > 0 =>
                  LET score == calculateWeightedScore(input[i])
                      ratings == WeightedRatings(input[i])
                  IN  /\ score.kind = "number"
                      /\ SetMin(ratings) - 5 <= score.n
                      /\ score.n <= SetMax(ratings) + 5
                      /\ 0 <= score.n /\ score.n <= 1000
        /\ output # Undefined =>
               /\ MemberScores(input) # {}
               /\ output.kind = "number"
               /\ SetMin(MemberScores(input)) <= output.n
               /\ output.n <= SetMax(MemberScores(input))

\* two hotels with different scores, the first with an entry without
\* reviews whose rating is above all others
C30_Witness ==
    /\ op = "calculateGroupAggregateScore"
    /\ Len(input) = 2
    /\ input[1] = <<[rating |-> 900, review_count |-> 0],
                    [rating |-> 750, review_count |-> 500]>>
    /\ input[2] = <<[rating |-> 850, review_count |-> 1000]>>
    /\ output = Num(820)

----------------------------------------------------------------------------
(* Pooled and hotel-by-hotel aggregate of the same scores *)

MaxPooledHotels == 2
MaxPooledReviews == 2

PooledPairs ==
    {[rating |-> 840, review_count |-> 100],
     [rating |-> 850, review_count |-> 150],
     [rating |-> 800, review_count |-> 200]}

PooledReviewLists == UNION {[1..n -> PooledPairs] : n \in 0..MaxPooledReviews}

\* the scores of each member hotel on one date
PooledInputs == UNION {[1..n -> PooledReviewLists] : n \in 0..MaxPooledHotels}

\* the snapshots of all member hotels in one list
RECURSIVE UnionOfScores(_)
UnionOfScores(reviewLists) ==
    IF reviewLists = <<>> THEN <<>>
    ELSE reviewLists[1] \o UnionOfScores(Tail(reviewLists))

InitPooled ==
    /\ input \in PooledInputs
    /\ output = Undefined
    /\ op = "none"
    /\ FetchQuiet

\* the group overall aggregate, hotel by hotel
CallOverallAggregate ==
    /\ op = "none"
    /\ output' = calculateGroupAggregateScore(AsHotelReviews(input))
    /\ op' = "calculateGroupAggregateScore"
    /\ UNCHANGED <<input, db, clock, call, last>>

\* the per-date group aggregate, over all snapshots of the date
CallAggregateForDate ==
    /\ op = "none"
    /\ output' = calculateGroupAggregateForDate(UnionOfScores(input))
    /\ op' = "calculateGroupAggregateForDate"
    /\ UNCHANGED <<input, db, clock, call, last>>

NextPooled ==
    \/ CallOverallAggregate
    \/ CallAggregateForDate

SpecPooled == InitPooled /\ [][NextPooled]_vars

\* C22: for the same scores of the member hotels, the average pooled over
\* all scores (the per-date group aggregate) is the one-decimal value of the
\* group overall aggregate computed hotel by hotel.
C22_PooledEqualsHotelByHotel ==
    /\ op = "calculateGroupAggregateForDate" =>
           output = calculateGroupAggregateScore(AsHotelReviews(input))
    /\ op = "calculateGroupAggregateScore" =>
           output = calculateGroupAggregateForDate(UnionOfScores(input))

----------------------------------------------------------------------------
(* Platform routes: what each route answers for what the search yielded *)

Rejected == [status |-> "rejected", value |-> RouteError(0)]
Fulfilled(response) == [status |-> "fulfilled", value |-> response]

RouteSuccess(rating, normalizedRating, reviewCount) ==
    RouteResponse(200, TRUE, rating, normalizedRating, reviewCount)

\* parseFloat(x.toFixed(2)) of x = n / d hundredths: nearest hundredth
ToFixed2(n, d) == (2 * n + d) \div (2 * d)

\* api/reviews/google: result.rating || 0, no test of the rating
GoogleRoute(answer) ==
    IF answer.kind = "no_results" THEN RouteError(404)
    ELSE LET rating == answer.rating
             reviewCount == answer.reviews
             normalizedRating == rating * 2
         IN RouteSuccess(rating, normalizedRating, reviewCount)

\* api/reviews/tripadvisor
TripAdvisorRoute(answer) ==
    IF answer.kind = "no_results" THEN RouteError(404)
    ELSE LET rating == answer.rating
             reviewCount == answer.reviews
         IN IF rating = 0 THEN RouteError(404)
            ELSE LET normalizedRating == rating * 2 IN
                 RouteSuccess(ToFixed2(rating, 1),
                              ToFixed2(normalizedRating, 1), reviewCount)

\* api/reviews/booking: the rating is taken as already on the 0-10 scale
BookingRoute(answer) ==
    IF answer.kind = "no_results" THEN RouteError(404)
    ELSE LET rating == answer.rating
             reviewCount == answer.reviews
         IN IF rating = 0 THEN RouteError(404)
            ELSE LET normalizedRating == rating IN
                 RouteSuccess(ToFixed2(rating, 1),
                              ToFixed2(normalizedRating, 1), reviewCount)

\* api/reviews/expedia: above 5 is 0-10 (above 10: 0-100), else 1-5
ExpediaRoute(answer) ==
    IF answer.kind = "no_results" THEN RouteError(404)
    ELSE LET rating == answer.rating
             reviewCount == answer.reviews
         IN IF rating = 0 THEN RouteError(404)
            ELSE IF rating > 500
                 THEN LET normalizedRating ==
                              IF rating > 1000 THEN ToFixed2(rating, 10)
                              ELSE ToFixed2(rating, 1)
                          displayRating == normalizedRating
                      IN RouteSuccess(displayRating, normalizedRating,
                                      reviewCount)
                 ELSE LET displayRating == rating
                          normalizedRating == rating * 2
                      IN RouteSuccess(ToFixed2(displayRating, 1),
                                      ToFixed2(normalizedRating, 1),
                                      reviewCount)

PlatformRoute(platform, answer) ==
    CASE platform = "google" -> GoogleRoute(answer)
      [] platform = "tripadvisor" -> TripAdvisorRoute(answer)
      [] platform = "booking" -> BookingRoute(answer)
      [] platform = "expedia" -> ExpediaRoute(answer)

----------------------------------------------------------------------------
(* review_snapshots table *)

RatingMax == 1000
DecimalMax == 9999

\* column types and CHECK constraints of review_snapshots
SatisfiesConstraints(row) ==
    /\ row.platform \in Platform
    /\ row.rating >= 0 /\ row.rating <= RatingMax
    /\ row.original_rating >= 0 /\ row.original_rating <= DecimalMax
    /\ row.review_count >= 0

StoredRow(row, id, now) ==
    [id |-> id, hotel_id |-> row.hotel_id, platform |-> row.platform,
     rating |-> row.rating, original_rating |-> row.original_rating,
     review_count |-> row.review_count, fetched_at |-> now]

\* variant: a row of the same hotel and platform is updated in place
insertSnapshots_Upserts(table, rows, now) ==
    IF \E i \in 1..Len(rows) : ~SatisfiesConstraints(rows[i])
    THEN [error |-> TRUE, table |-> table, data |-> <<>>]
    ELSE LET SameKey(a, b) ==
                 a.hotel_id = b.hotel_id /\ a.platform = b.platform
             updated ==
                 [i \in 1..Len(table) |->
                     IF \E j \in 1..Len(rows) : SameKey(rows[j], table[i])
                     THEN StoredRow(
                              rows[CHOOSE j \in 1..Len(rows) :
                                       SameKey(rows[j], table[i])],
                              table[i].id, now)
                     ELSE table[i]]
             fresh ==
                 SelectSeq(rows, LAMBDA r :
                     \A i \in 1..Len(table) : ~SameKey(r, table[i]))
             added == [i \in 1..Len(fresh) |->
                          StoredRow(fresh[i], Len(table) + i, now)]
         IN [error |-> FALSE, table |-> updated \o added,
             data |-> [i \in 1..Len(rows) |-> StoredRow(rows[i], i, now)]]

\* supabase.from("review_snapshots").insert(rows).select(): one statement,
\* all rows or none
insertSnapshots(table, rows, now) ==
    IF \E i \in 1..Len(rows) : ~SatisfiesConstraints(rows[i])
    THEN [error |-> TRUE, table |-> table, data |-> <<>>]
    ELSE LET inserted == [i \in 1..Len(rows) |->
                             StoredRow(rows[i], Len(table) + i, now)]
         IN [error |-> FALSE, table |-> table \o inserted, data |-> inserted]

----------------------------------------------------------------------------
(* unnamed/part_013: POST /api/reviews/fetch-all *)

\* state of the result loop after its first i iterations
RECURSIVE processResults(_, _, _)
processResults(hotel, results, i) ==
    IF i = 0
    THEN [platformResults |-> [p \in Platform |-> FailedResult],
          reviewSnapshots |-> <<>>,
          successfulReviews |-> <<>>]
    ELSE LET acc == processResults(hotel, results, i - 1)
             platform == platforms[i]
             result == results[platform]
         IN IF /\ result.status = "fulfilled"
               /\ result.value.status \in 200..299
               /\ result.value.success
            THEN LET data == result.value IN
                 [platformResults |->
                      [acc.platformResults EXCEPT ![platform] =
                          [success |-> TRUE,
                           rating |-> data.normalized_rating,
                           original_rating |-> data.rating,
                           review_count |-> data.review_count]],
                  reviewSnapshots |->
                      Append(acc.reviewSnapshots,
                             [hotel_id |-> hotel,
                              platform |-> platform,
                              rating |-> data.normalized_rating,
                              original_rating |-> data.rating,
                              review_count |-> data.review_count]),
                  successfulReviews |->
                      Append(acc.successfulReviews,
                             [rating |-> data.normalized_rating,
                              review_count |-> data.review_count])]
            ELSE acc

\* the response and the table once all four promises have settled
fetchAllResponse(request, table, now) ==
    LET processed == processResults(request.hotel, request.results,
                                    Len(platforms))
        reviewSnapshots == processed.reviewSnapshots
        successfulReviews == processed.successfulReviews
        insertion == IF Len(reviewSnapshots) > 0
                     THEN insertSnapshots(table, reviewSnapshots, now)
                     ELSE [error |-> FALSE, table |-> table, data |-> <<>>]
        saved_count == IF insertion.error THEN 0 ELSE Len(insertion.data)
        weighted_score == IF Len(successfulReviews) > 0
                          THEN calculateWeightedScore(successfulReviews)
                          ELSE Undefined
    IN [table |-> insertion.table,
        response |->
            [hotel |-> request.hotel, status |-> 200, success |-> TRUE,
             answers |-> request.answers,
             results |-> processed.platformResults,
             saved_count |-> saved_count,
             weighted_score |-> weighted_score,
             fetched_at |-> now]]

----------------------------------------------------------------------------
(* The fetch-all route as a state machine *)

MaxCalls == 2
FetchHotels == {"h1"}

Found(rating) == [kind |-> "found", rating |-> rating, reviews |-> 120]
RequestFails == [kind |-> "rejected", rating |-> 0, reviews |-> 0]
NoResults == [kind |-> "no_results", rating |-> 0, reviews |-> 0]

\* ratings a search result can carry (0: none), in hundredths: the 1-5
\* platforms show 4.5; booking and expedia show 8.5 or 85 (0-100 scale)
RatingsFound(platform) ==
    IF platform \in {"google", "tripadvisor"} THEN {0, 450}
    ELSE IF platform = "booking" THEN {0, 850, 8500}
    ELSE {0, 450, 8500}

\* the tripadvisor, booking and expedia routes answer a result without
\* rating exactly as they answer no result (404), so an empty search is
\* drawn for google only
ProviderAnswers(platform) ==
    {RequestFails}
        \cup (IF platform = "google" THEN {NoResults} ELSE {})
        \cup {Found(r) : r \in RatingsFound(platform)}

Init ==
    /\ input = <<>>
    /\ output = Undefined
    /\ op = "none"
    /\ db = <<>>
    /\ clock = 1
    /\ call = Idle
    /\ last = NoResponse

\* a request passes validation, authentication and the hotel lookup, and
\* the four platform requests are sent
StartFetchAll(hotel) ==
    /\ call = Idle
    /\ clock <= MaxCalls
    /\ call' = [Idle EXCEPT !.hotel = hotel]
    /\ last' = NoResponse
    /\ UNCHANGED <<db, clock, input, output, op>>

\* early returns: no hotel_id (400), no user (401), hotel not found (404)
RefuseFetchAll(status) ==
    /\ call = Idle
    /\ last' = [NoResponse EXCEPT !.status = status]
    /\ UNCHANGED <<db, clock, call, input, output, op>>

\* one of the four platform promises settles
Settle(platform, answer) ==
    /\ call.hotel # "none"
    /\ call.results[platform] = Pending
    /\ call' = [call EXCEPT
                   !.answers[platform] = answer,
                   !.results[platform] =
                       IF answer.kind = "rejected" THEN Rejected
                       ELSE Fulfilled(PlatformRoute(platform, answer))]
    /\ UNCHANGED <<db, clock, last, input, output, op>>

\* Promise.allSettled resolves: result loop, batch insert, response
Respond ==
    /\ call.hotel # "none"
    /\ \A p \in Platform : call.results[p] # Pending
    /\ LET done == fetchAllResponse(call, db, clock) IN
       /\ db' = done.table
       /\ last' = done.response
    /\ clock' = clock + 1
    /\ call' = Idle
    /\ UNCHANGED <<input, output, op>>

Next ==
    \/ \E hotel \in FetchHotels : StartFetchAll(hotel)
    \/ \E status \in {400, 401, 404} : RefuseFetchAll(status)
    \/ \E platform \in Platform :
           \E answer \in ProviderAnswers(platform) : Settle(platform, answer)
    \/ Respond

Spec == Init /\ [][Next]_vars

----------------------------------------------------------------------------
(* Properties of the fetch-all route *)

\* rows written by the call that last answered, for one platform
RowsOfLastCall(platform) ==
    {i \in 1..Len(db) :
        /\ db[i].hotel_id = last.hotel
        /\ db[i].platform = platform
        /\ db[i].fetched_at = last.fetched_at}

\* the platform's route answered with a successful result
ReturnedSuccess(platform) ==
    /\ last.answers[platform].kind \in {"found", "no_results"}
    /\ PlatformRoute(platform, last.answers[platform]).success

\* C6: when a fetch-all call has answered, every platform whose route
\* returned a successful result is reported successful and has its snapshot
\* in the table, and every other platform is reported failed and has none,
\* whatever the other platforms answered and in whatever order.
C6_EverySuccessPersisted ==
    last.success =>
        \A p \in Platform :
            IF ReturnedSuccess(p)
            THEN /\ last.results[p].success
                 /\ \E i \in RowsOfLastCall(p) :
                        /\ db[i].rating = last.results[p].rating
                        /\ db[i].review_count = last.results[p].review_count
            ELSE /\ ~last.results[p].success
                 /\ RowsOfLastCall(p) = {}

\* C27: in every fetch-all response saved_count is the number of platforms
\* reported with success = true, and each of them has the snapshot of this
\* call in the table.
C27_SavedCountIsSuccessCount ==
    last.success =>
        /\ last.saved_count =
               Cardinality({p \in Platform : last.results[p].success})
        /\ \A p \in Platform :
               last.results[p].success => RowsOfLastCall(p) # {}

C15_MalformedResultsRejected ==
    /\ \A i \in 1..Len(db) :
           /\ db[i].rating >= 0 /\ db[i].rating <= RatingMax
           /\ db[i].review_count >= 0
    /\ last.success =>
           /\ \A p \in Platform :
                  last.results[p].success =>
                      /\ last.results[p].rating >= 0
                      /\ last.results[p].rating <= RatingMax
                      /\ last.results[p].review_count >= 0
           /\ last.weighted_score.kind = "number" =>
                  last.weighted_score.n <= RatingMax

\* the search result of the platform carried no rating
NoRatingDetermined(platform) ==
    \/ last.answers[platform].kind = "no_results"
    \/ /\ last.answers[platform].kind = "found"
       /\ last.answers[platform].rating = 0

\* C8: when a fetch-all call has answered, a platform whose search result
\* carried no rating is reported failed and has no snapshot, and the table
\* holds no row with rating 0.
C8_NoSnapshotWithoutRating ==
    last.success =>
        /\ \A p \in Platform :
               NoRatingDetermined(p) =>
                   /\ ~last.results[p].success
                   /\ RowsOfLastCall(p) = {}
        /\ \A i \in 1..Len(db) : db[i].rating # 0

----------------------------------------------------------------------------
(* Trends: chartData of the group page, transformToChartData of the hotel
   page, generateGroupHistoricalCSV.  fetched_at counts half days, so that
   two timestamps can share a calendar date. *)

\* fetched_at.split('T')[0]: the calendar date of a timestamp
DateOf(fetched_at) == fetched_at \div 2

DateRange == {"7d", "30d", "90d", "all"}

NoDateFilter == [null |-> TRUE, time |-> 0]

\* null for 'all', else now minus the days of the range
getDateFilter(range, now) ==
    IF range = "all" THEN NoDateFilter
    ELSE LET days == IF range = "7d" THEN 7
                     ELSE IF range = "30d" THEN 30 ELSE 90
         IN [null |-> FALSE, time |-> now - days * 2]

\* variant: a snapshot fetched exactly at the cut-off is filtered out
filteredSnapshots_Exclusive(allSnapshots, dateRange, now) ==
    LET dateFilter == getDateFilter(dateRange, now) IN
    IF dateFilter.null THEN allSnapshots
    ELSE SelectSeq(allSnapshots, LAMBDA s : s.fetched_at > dateFilter.time)

filteredSnapshots(allSnapshots, dateRange, now) ==
    LET dateFilter == getDateFilter(dateRange, now) IN
    IF dateFilter.null THEN allSnapshots
    ELSE SelectSeq(allSnapshots, LAMBDA s : s.fetched_at >= dateFilter.time)

\* the Map from date key to the snapshots of that date, in list order
RECURSIVE snapshotsByDate(_, _)
snapshotsByDate(map, snapshots) ==
    IF snapshots = <<>> THEN map
    ELSE LET snapshot == snapshots[1]
             dateKey == DateOf(snapshot.fetched_at)
             sameDate == IF MapHas(map, dateKey) THEN MapGet(map, dateKey)
                         ELSE <<>>
         IN snapshotsByDate(MapSet(map, dateKey, Append(sameDate, snapshot)),
                            Tail(snapshots))

\* variant: the points stay in the order of the Map
SortByDate_Unsorted(points) == points

\* .sort((a, b) => a.date.getTime() - b.date.getTime()), a stable sort
RECURSIVE SortByDate(_)
SortByDate(points) ==
    IF points = <<>> THEN <<>>
    ELSE LET first == points[1]
             rest == SortByDate(Tail(points))
         IN SelectSeq(rest, LAMBDA p : p.date < first.date)
            \o <<first>>
            \o SelectSeq(rest, LAMBDA p : p.date >= first.date)

\* group page: one point per date key with the weighted score of its snapshots
chartData(filtered) ==
    IF Len(filtered) = 0 THEN <<>>
    ELSE LET byDate == snapshotsByDate(<<>>, filtered)
             point(dateKey, dateSnapshots) ==
                 LET totalWeight == SumReviewCount(dateSnapshots)
                     weightedSum == SumRatingTimesCount(dateSnapshots)
                     aggregateScore == IF totalWeight > 0
                                       THEN Num(Round1(weightedSum, totalWeight))
                                       ELSE Num(0)
                 IN [date |-> dateKey, timestamp |-> dateKey,
                     aggregateScore |-> aggregateScore]
         IN SortByDate([i \in 1..Len(byDate) |->
                           point(byDate[i].key, byDate[i].value)])

\* the Map from fetched_at to the ratings by platform at that timestamp
RECURSIVE groupedByTime(_, _)
groupedByTime(map, snapshots) ==
    IF snapshots = <<>> THEN map
    ELSE LET snapshot == snapshots[1]
             key == snapshot.fetched_at
             ratings == IF MapHas(map, key) THEN MapGet(map, key) ELSE <<>>
         IN groupedByTime(
                MapSet(map, key, MapSet(ratings, snapshot.platform, snapshot.rating)),
                Tail(snapshots))

\* hotel page: one point per fetched_at value; timestamp is the date shown
transformToChartData(snapshots) ==
    LET byTime == groupedByTime(<<>>, snapshots)
    IN SortByDate([i \in 1..Len(byTime) |->
                      [date |-> byTime[i].key,
                       timestamp |-> DateOf(byTime[i].key),
                       ratings |-> byTime[i].value]])

\* Number.prototype.toFixed(1) of a rating in hundredths
ToFixed1(rating) == Round1(rating, 1)

\* Array.from(snapshotsByDate.keys()).sort(): ISO dates sort chronologically
sortedDates(byDate) ==
    LET keys == SortByDate([i \in 1..Len(byDate) |-> [date |-> byDate[i].key]])
    IN [i \in 1..Len(keys) |-> keys[i].date]

\* the CSV lines written for one date: its snapshots, then the aggregate
\* line when the date carries reviews
csvRowsOfDate(hotels, date, dateSnapshots) ==
    LET known == SelectSeq(dateSnapshots, LAMBDA s :
                     \E i \in 1..Len(hotels) : hotels[i] = s.hotel_id)
        totalWeight == SumReviewCount(dateSnapshots)
    IN [i \in 1..Len(known) |->
           [kind |-> "snapshot", date |-> date, hotel |-> known[i].hotel_id,
            platform |-> known[i].platform,
            rating |-> ToFixed1(known[i].rating),
            review_count |-> known[i].review_count]]
       \o (IF totalWeight > 0
           THEN <<[kind |-> "aggregate", date |-> date,
                   hotel |-> "[GROUP AGGREGATE]", platform |-> "All Platforms",
                   rating |-> ToFixed1(Round1(SumRatingTimesCount(dateSnapshots),
                                              totalWeight)),
                   review_count |-> totalWeight]>>
           ELSE <<>>)

RECURSIVE csvRowsFrom(_, _, _, _)
csvRowsFrom(hotels, byDate, dates, i) ==
    IF i > Len(dates) THEN <<>>
    ELSE csvRowsOfDate(hotels, dates[i], MapGet(byDate, dates[i]))
         \o csvRowsFrom(hotels, byDate, dates, i + 1)

\* the lines after the header
generateGroupHistoricalCSV(hotels, snapshots) ==
    LET byDate == snapshotsByDate(<<>>, snapshots)
    IN csvRowsFrom(hotels, byDate, sortedDates(byDate), 1)

\* no export without hotels or without snapshots in the range
handleExportHistory(hotels, filtered) ==
    IF Len(hotels) = 0 \/ Len(filtered) = 0
    THEN [exported |-> FALSE, rows |-> <<>>]
    ELSE [exported |-> TRUE, rows |-> generateGroupHistoricalCSV(hotels, filtered)]

----------------------------------------------------------------------------
(* Trend views on bounded snapshot tables *)

MaxTrend == 3

\* new Date() when the range is applied: day 100
TrendNows == {200}

\* timestamps around the cut-offs of the ranges (186, 140, 20), two of them
\* on the same date
TrendTimes == {19, 20, 139, 140, 186, 187}

TrendKeys == {<<"h1", "google">>, <<"h1", "booking">>, <<"h2", "google">>}

TrendCounts(hotel) == IF hotel = "h1" THEN {100} ELSE {0, 300}

TrendRating(platform, t) == IF platform = "google" THEN 700 + t ELSE 950 - t

TrendRows ==
    UNION {{[hotel_id |-> k[1], platform |-> k[2],
             rating |-> TrendRating(k[2], t), original_rating |-> TrendRating(k[2], t),
             review_count |-> c, fetched_at |-> t] :
                t \in TrendTimes, c \in TrendCounts(k[1])} : k \in TrendKeys}

InitTrend ==
    /\ input \in [snapshots : SubsetsUpTo(TrendRows, MaxTrend), now : TrendNows]
    /\ output = Undefined
    /\ op = "none"
    /\ FetchQuiet

Trend(name, dateRange, allSnapshots, filtered, points, export) ==
    /\ op' = name
    /\ output' = [dateRange |-> dateRange, allSnapshots |-> allSnapshots,
                  filteredSnapshots |-> filtered, points |-> points,
                  exported |-> export.exported, rows |-> export.rows]
    /\ UNCHANGED <<input, db, clock, call, last>>

NoExport == [exported |-> FALSE, rows |-> <<>>]

\* group page: range filter, then chartData
ViewChartData ==
    /\ op = "none"
    /\ \E dateRange \in DateRange :
       \E ordered \in OrderByFetchedAtDesc(input.snapshots) :
          LET allSnapshots == InHotelIds(ordered, Hotels)
              filtered == filteredSnapshots(allSnapshots, dateRange, input.now)
          IN Trend("chartData", dateRange, allSnapshots, filtered,
                   chartData(filtered), NoExport)

\* hotel page of h1: range filter, then transformToChartData
ViewTransformToChartData ==
    /\ op = "none"
    /\ \E dateRange \in DateRange :
       \E ordered \in OrderByFetchedAtDesc(
                          {r \in input.snapshots : r.hotel_id = "h1"}) :
          LET filtered == filteredSnapshots(ordered, dateRange, input.now)
          IN Trend("transformToChartData", dateRange, ordered, filtered,
                   transformToChartData(filtered), NoExport)

\* group page: range filter, then the history export
ViewExportHistory ==
    /\ op = "none"
    /\ \E dateRange \in DateRange :
       \E ordered \in OrderByFetchedAtDesc(input.snapshots) :
          LET allSnapshots == InHotelIds(ordered, Hotels)
              filtered == filteredSnapshots(allSnapshots, dateRange, input.now)
          IN Trend("handleExportHistory", dateRange, allSnapshots, filtered,
                   <<>>, handleExportHistory(Hotels, filtered))

NextTrend == ViewChartData \/ ViewTransformToChartData \/ ViewExportHistory

SpecTrend == InitTrend /\ [][NextTrend]_vars

----------------------------------------------------------------------------
(* Properties of the trends *)

TrendSites == {"chartData", "transformToChartData", "handleExportHistory"}

\* calendar dates of the snapshots a trend was built from
TrendDates ==
    {DateOf(output.filteredSnapshots[i].fetched_at) :
        i \in 1..Len(output.filteredSnapshots)}

\* C12: one trend point per calendar date of the snapshots given to the
\* trend: in both charts no two points carry the same date and the number
\* of points is the number of distinct dates; in the history export the
\* lines of a date form one block.
C12_OneTrendPointPerDate ==
    /\ op \in {"chartData", "transformToChartData"} =>
          /\ Len(output.points) = Cardinality(TrendDates)
          /\ \A i, j \in 1..Len(output.points) :
                 output.points[i].timestamp = output.points[j].timestamp => i = j
          /\ {output.points[i].timestamp : i \in 1..Len(output.points)} = TrendDates
    /\ (op = "handleExportHistory" /\ output.exported) =>
          /\ {output.rows[i].date : i \in 1..Len(output.rows)} = TrendDates
          /\ \A i, j \in 1..Len(output.rows) :
                 i < j => output.rows[i].date <= output.rows[j].date

\* days of a range, as the range selector names them
RangeDays(dateRange) ==
    CASE dateRange = "7d" -> 7 [] dateRange = "30d" -> 30 [] dateRange = "90d" -> 90

\* the snapshot was fetched within the range that the last view applied
InRange(snapshot) ==
    \/ output.dateRange = "all"
    \/ snapshot.fetched_at >= input.now - RangeDays(output.dateRange) * 2

\* the snapshots of the table that the view covers, within the range
SnapshotsInRange ==
    {s \in input.snapshots :
        /\ InRange(s)
        /\ op = "transformToChartData" => s.hotel_id = "h1"}

\* C13: for each range the trend is the bucketing of exactly the snapshots
\* fetched within the range: the list handed to the bucketing holds all of
\* them and no other, the points are the bucketing of that list, and in the
\* group chart every point is the score over the in-range snapshots of its
\* date.
C13_FilterThenBucket ==
    op \in {"chartData", "transformToChartData"} =>
        /\ output.filteredSnapshots = SelectSeq(output.allSnapshots, InRange)
        /\ {output.filteredSnapshots[i] : i \in 1..Len(output.filteredSnapshots)}
               = SnapshotsInRange
        /\ Len(output.filteredSnapshots) = Cardinality(SnapshotsInRange)
        /\ op = "chartData" =>
              /\ output.points = chartData(SelectSeq(output.allSnapshots, InRange))
              /\ \A i \in 1..Len(output.points) :
                     LET ofDate == {s \in SnapshotsInRange :
                                       DateOf(s.fetched_at) = output.points[i].date}
                     IN /\ ofDate # {}
                        /\ CountSum(ofDate) > 0 =>
                               output.points[i].aggregateScore
                                   = Num(Round1(RatingCountSum(ofDate),
                                                CountSum(ofDate)))
              /\ \A s \in SnapshotsInRange :
                     \E i \in 1..Len(output.points) :
                         output.points[i].date = DateOf(s.fetched_at)
        /\ op = "transformToChartData" =>
              output.points =
                  transformToChartData(SelectSeq(output.allSnapshots, InRange))

\* the 7-day chart of a table with a snapshot exactly at the cut-off and an
\* older one: one point, for the date of the cut-off
C13_Witness ==
    /\ op = "chartData"
    /\ output.dateRange = "7d"
    /\ \E s \in input.snapshots : s.fetched_at = 186 /\ s.review_count > 0
    /\ \E s \in input.snapshots : s.fetched_at = 140
    /\ Len(output.points) = 1
    /\ output.points[1].date = 93

\* C23: a point of the group trend whose date has snapshots with a total
\* review count of zero carries an undefined aggregate score, never 0.
C23_ZeroWeightPointUndefined ==
    op = "chartData" =>
        \A i \in 1..Len(output.points) :
            LET ofDate == {s \in SnapshotsInRange :
                              DateOf(s.fetched_at) = output.points[i].date}
            IN  CountSum(ofDate) = 0 =>
                    output.points[i].aggregateScore = Undefined

\* C18: a history export has, for every calendar date of its snapshots,
\* exactly one aggregate line, after the snapshot lines of that date, and
\* the dates ascend through the file.
C18_OneAggregateRowPerDate ==
    (op = "handleExportHistory" /\ output.exported) =>
        /\ \A date \in TrendDates :
               /\ Cardinality({i \in 1..Len(output.rows) :
                                  /\ output.rows[i].kind = "aggregate"
                                  /\ output.rows[i].date = date}) = 1
               /\ \A i, j \in 1..Len(output.rows) :
                      (/\ output.rows[i].date = date
                       /\ output.rows[j].date = date
                       /\ output.rows[i].kind = "snapshot"
                       /\ output.rows[j].kind = "aggregate") => i < j
        /\ \A i, j \in 1..Len(output.rows) :
               i < j => output.rows[i].date <= output.rows[j].date

----------------------------------------------------------------------------
(* Rating normalization *)

\* unnamed/part_014: normalizeScore
normalizeScore(score, scale) ==
    IF scale = "1-5" THEN score * 2 ELSE score

Scales == {"1-5", "1-10"}

\* raw ratings in hundredths, on the 1-5, the 0-10 and the 0-100 scale
RawRatings == {100, 250, 450, 500, 510, 600, 850, 1000, 1100, 8500}

InitNormalize ==
    /\ input \in [lower : RawRatings, higher : RawRatings]
    /\ input.lower <= input.higher
    /\ output = Undefined
    /\ op = "none"
    /\ FetchQuiet

\* a platform route normalizes the two ratings
NormalizeByRoute(platform) ==
    /\ op = "none"
    /\ LET lower == PlatformRoute(platform, Found(input.lower))
           higher == PlatformRoute(platform, Found(input.higher))
       IN output' = [by |-> platform,
                     lower |-> lower.normalized_rating,
                     higher |-> higher.normalized_rating]
    /\ op' = "PlatformRoute"
    /\ UNCHANGED <<input, db, clock, call, last>>

NormalizeByHelper(scale) ==
    /\ op = "none"
    /\ output' = [by |-> scale,
                  lower |-> normalizeScore(input.lower, scale),
                  higher |-> normalizeScore(input.higher, scale)]
    /\ op' = "normalizeScore"
    /\ UNCHANGED <<input, db, clock, call, last>>

NextNormalize ==
    \/ \E platform \in Platform : NormalizeByRoute(platform)
    \/ \E scale \in Scales : NormalizeByHelper(scale)

SpecNormalize == InitNormalize /\ [][NextNormalize]_vars

\* platforms and scales whose raw ratings are on the 1-5 scale
OneToFive == {"google", "tripadvisor", "expedia", "1-5"}

\* C14: for every platform route and for normalizeScore, of two raw ratings
\* the higher one never gets the lower normalized rating, and a raw 5 on a
\* 1-5 scale is normalized to exactly 10.
C14_NormalizationMonotonic ==
    op \in {"PlatformRoute", "normalizeScore"} =>
        /\ output.lower <= output.higher
        /\ (input.lower = 500 /\ output.by \in OneToFive) => output.lower = 1000

----------------------------------------------------------------------------
(* Bulk refresh: handleRefreshAll (group page), handleRefresh (GroupCard),
   handleBulkRefresh (dashboard).  input is the handler and its hotels, op
   the position of the handler, output its local state, clock the time in
   ticks of 500 ms. *)

MaxRefreshHotels == 3
MaxTime == 8

\* setTimeout(resolve, 1500)
RefreshDelayTicks == 3

SequentialSites == {"handleRefreshAll", "handleRefresh"}
RefreshSites == SequentialSites \cup {"handleBulkRefresh"}

\* local state of a refresh handler: i is the loop index (from 0), wake the
\* time the pending timer is due, issued and completed log the requests
RefreshState(i, inFlight, issued, completed, wake) ==
    [i |-> i, inFlight |-> inFlight, issued |-> issued,
     completed |-> completed, wake |-> wake]

InitRefresh ==
    /\ input \in [site : RefreshSites,
                  hotels : {[k \in 1..n |-> k] : n \in 0..MaxRefreshHotels}]
    /\ output = RefreshState(0, {}, <<>>, <<>>, 0)
    /\ op = "start"
    /\ db = <<>>
    /\ clock = 0
    /\ call = Idle
    /\ last = NoResponse

\* time passes
Tick ==
    /\ clock < MaxTime
    /\ clock' = clock + 1
    /\ UNCHANGED <<input, output, op, db, call, last>>

\* sequential handlers: return at once without hotels, else enter the loop
BeginSequential ==
    /\ op = "start"
    /\ input.site \in SequentialSites
    /\ op' = IF Len(input.hotels) = 0 THEN "done" ELSE "loop"
    /\ UNCHANGED <<input, output, db, clock, call, last>>

\* loop body: await fetch('/api/reviews/fetch-all') for hotels[i]
IssueNext ==
    /\ op = "loop"
    /\ LET hotel == input.hotels[output.i + 1] IN
       output' = [output EXCEPT
                     !.inFlight = output.inFlight \cup {hotel},
                     !.issued = Append(output.issued,
                                       [hotel |-> hotel, at |-> clock])]
    /\ op' = "awaiting"
    /\ UNCHANGED <<input, db, clock, call, last>>

\* the awaited request settles (a response or a network error); then the
\* delay starts, except after the last hotel
CompleteAwaited ==
    /\ op = "awaiting"
    /\ \E hotel \in output.inFlight :
          LET isLast == ~(output.i < Len(input.hotels) - 1) IN
          /\ output' = [output EXCEPT
                           !.inFlight = output.inFlight \ {hotel},
                           !.completed = Append(output.completed,
                                                [hotel |-> hotel, at |-> clock]),
                           !.wake = IF isLast THEN output.wake
                                    ELSE clock + RefreshDelayTicks]
          /\ op' = IF isLast THEN "done" ELSE "sleeping"
    /\ UNCHANGED <<input, db, clock, call, last>>

\* the timer fires, not before it is due: next iteration
TimerFires ==
    /\ op = "sleeping"
    /\ clock >= output.wake
    /\ output' = [output EXCEPT !.i = output.i + 1]
    /\ op' = "loop"
    /\ UNCHANGED <<input, db, clock, call, last>>

\* dashboard: Promise.all over the selected hotels issues every request
IssueAll ==
    /\ op = "start"
    /\ input.site = "handleBulkRefresh"
    /\ output' = [output EXCEPT
                     !.inFlight = {input.hotels[k] : k \in 1..Len(input.hotels)},
                     !.issued = [k \in 1..Len(input.hotels) |->
                                    [hotel |-> input.hotels[k], at |-> clock]]]
    /\ op' = IF Len(input.hotels) = 0 THEN "done" ELSE "awaitingAll"
    /\ UNCHANGED <<input, db, clock, call, last>>

\* one of the requests of Promise.all settles, in any order
CompleteOne ==
    /\ op = "awaitingAll"
    /\ \E hotel \in output.inFlight :
          /\ output' = [output EXCEPT
                           !.inFlight = output.inFlight \ {hotel},
                           !.completed = Append(output.completed,
                                                [hotel |-> hotel, at |-> clock])]
          /\ op' = IF output.inFlight = {hotel} THEN "done" ELSE "awaitingAll"
    /\ UNCHANGED <<input, db, clock, call, last>>

NextRefresh ==
    \/ Tick
    \/ BeginSequential
    \/ IssueNext
    \/ CompleteAwaited
    \/ TimerFires
    \/ IssueAll
    \/ CompleteOne

SpecRefresh == InitRefresh /\ [][NextRefresh]_vars

\* C16: in a bulk refresh at most one fetch-all request is in flight, and
\* the request of every hotel after the first is issued only when the
\* request of the previous hotel has completed and the delay has elapsed
\* since.
C16_OneRequestAtATime ==
    /\ Cardinality(output.inFlight) <= 1
    /\ \A k \in 2..Len(output.issued) :
           /\ Len(output.completed) >= k - 1
           /\ output.completed[k - 1].hotel = output.issued[k - 1].hotel
           /\ output.issued[k].at
                  >= output.completed[k - 1].at + RefreshDelayTicks

(***************************************************************************)
(* Row-level security: src/sql/migrations/002_rls_policies.sql over the    *)
(* tables of 001_initial_schema.sql                                        *)
(***************************************************************************)

\* auth.uid() of a request without a session.
SqlNull == "NULL"

Users == {"u1", "u2"}

Sessions == Users \cup {SqlNull}

HotelIds == {"h1", "h2"}

GroupIds == {"g1"}

SnapshotIds == {"s1"}

Tables == {"hotels", "hotel_groups", "hotel_group_members", "review_snapshots"}

\* SQL `a = b`: a comparison with NULL is not true.
SqlEq(a, b) == a # SqlNull /\ b # SqlNull /\ a = b

\* The rows a request can name, column by column; user_id is NOT NULL.
RowsOf(table) ==
    CASE table = "hotels" ->
           [id : HotelIds, user_id : Users]
      [] table = "hotel_groups" ->
           [id : GroupIds, user_id : Users]
      [] table = "hotel_group_members" ->
           [hotel_id : HotelIds, group_id : GroupIds]
      [] table = "review_snapshots" ->
           [id : SnapshotIds, hotel_id : HotelIds]

\* Primary key of a row.
PrimaryKey(table, row) ==
    IF table = "hotel_group_members"
    THEN <<row.hotel_id, row.group_id>>
    ELSE <<row.id>>

\* REFERENCES: the rows a new row points to exist.
ForeignKeysHold(table, row, d) ==
    CASE table = "hotel_group_members" ->
           /\ \E hotels \in d.hotels : hotels.id = row.hotel_id
           /\ \E hotel_groups \in d.hotel_groups : hotel_groups.id = row.group_id
      [] table = "review_snapshots" ->
           \E hotels \in d.hotels : hotels.id = row.hotel_id
      [] OTHER -> TRUE

\* ON DELETE CASCADE of the membership and snapshot tables.
OnDeleteCascade(d) ==
    [d EXCEPT
       !.hotel_group_members =
           {row \in d.hotel_group_members :
               ForeignKeysHold("hotel_group_members", row, d)},
       !.review_snapshots =
           {row \in d.review_snapshots :
               ForeignKeysHold("review_snapshots", row, d)}]

\* EXISTS (SELECT 1 FROM public.hotels WHERE hotels.id = <hotel_id> AND
\* hotels.user_id = auth.uid())
ExistsOwnHotel(uid, hotel_id, d) ==
    \E hotels \in d.hotels :
        hotels.id = hotel_id /\ SqlEq(hotels.user_id, uid)

\* EXISTS (SELECT 1 FROM public.hotel_groups WHERE hotel_groups.id =
\* <group_id> AND hotel_groups.user_id = auth.uid())
ExistsOwnGroup(uid, group_id, d) ==
    \E hotel_groups \in d.hotel_groups :
        hotel_groups.id = group_id /\ SqlEq(hotel_groups.user_id, uid)

\* WITH CHECK of a membership insert that looks at the hotel alone.
MembersInsertCheck_HotelOnly(uid, row, d) ==
    ExistsOwnHotel(uid, row.hotel_id, d)

\* "Users can insert their own group members"
MembersInsertCheck(uid, row, d) ==
    /\ ExistsOwnHotel(uid, row.hotel_id, d)
    /\ ExistsOwnGroup(uid, row.group_id, d)

\* USING of the policies FOR SELECT, UPDATE and DELETE.  A table with row
\* level security enabled and no policy for a command gives the command no
\* row: hotel_group_members has no policy FOR UPDATE.
Using(table, cmd, uid, row, d) ==
    CASE table \in {"hotels", "hotel_groups"} -> SqlEq(uid, row.user_id)
      [] table = "hotel_group_members" ->
           cmd # "update" /\ ExistsOwnHotel(uid, row.hotel_id, d)
      [] table = "review_snapshots" -> ExistsOwnHotel(uid, row.hotel_id, d)

\* WITH CHECK of the policies FOR INSERT and UPDATE.
WithCheck(table, cmd, uid, row, d) ==
    CASE table \in {"hotels", "hotel_groups"} -> SqlEq(uid, row.user_id)
      [] table = "hotel_group_members" ->
           cmd # "update" /\ MembersInsertCheck(uid, row, d)
      [] table = "review_snapshots" -> ExistsOwnHotel(uid, row.hotel_id, d)

NoTables ==
    [hotels |-> {}, hotel_groups |-> {}, hotel_group_members |-> {},
     review_snapshots |-> {}]

Request(uid, cmd, table, row) ==
    [uid |-> uid, cmd |-> cmd, table |-> table, row |-> row]

\* What the database answers: the rows returned or affected, or an error.
Answer(rows, error) == [rows |-> rows, error |-> error]

RlsQuiet ==
    /\ clock = 0
    /\ call = Idle
    /\ last = NoResponse

InitRls ==
    /\ input = Request(SqlNull, "none", "hotels", <<>>)
    /\ output = Answer({}, FALSE)
    /\ op = "none"
    /\ db = NoTables
    /\ RlsQuiet

\* SELECT * FROM <table>
Select(uid, table) ==
    /\ input' = Request(uid, "select", table, <<>>)
    /\ op' = "select"
    /\ output' = Answer({row \in db[table] :
                            Using(table, "select", uid, row, db)}, FALSE)
    /\ UNCHANGED <<db, clock, call, last>>

\* INSERT INTO <table> VALUES (<row>)
Insert(uid, table, row) ==
    /\ input' = Request(uid, "insert", table, row)
    /\ op' = "insert"
    /\ IF /\ WithCheck(table, "insert", uid, row, db)
          /\ ForeignKeysHold(table, row, db)
          /\ \A old \in db[table] :
                 PrimaryKey(table, old) # PrimaryKey(table, row)
       THEN /\ db' = [db EXCEPT ![table] = @ \cup {row}]
            /\ output' = Answer({row}, FALSE)
       ELSE /\ db' = db
            /\ output' = Answer({}, TRUE)
    /\ UNCHANGED <<clock, call, last>>

\* UPDATE <table> SET <the other columns of row> WHERE <primary key of row>
Update(uid, table, row) ==
    LET targets == {old \in db[table] :
                       /\ PrimaryKey(table, old) = PrimaryKey(table, row)
                       /\ Using(table, "update", uid, old, db)}
    IN  /\ input' = Request(uid, "update", table, row)
        /\ op' = "update"
        /\ IF targets = {}
           THEN /\ db' = db
                /\ output' = Answer({}, FALSE)
           ELSE IF /\ WithCheck(table, "update", uid, row, db)
                   /\ ForeignKeysHold(table, row, db)
                THEN /\ db' = [db EXCEPT ![table] = (@ \ targets) \cup {row}]
                     /\ output' = Answer({row}, FALSE)
                ELSE /\ db' = db
                     /\ output' = Answer({}, TRUE)
        /\ UNCHANGED <<clock, call, last>>

\* DELETE FROM <table> WHERE <primary key of row>
Delete(uid, table, row) ==
    LET targets == {old \in db[table] :
                       /\ PrimaryKey(table, old) = PrimaryKey(table, row)
                       /\ Using(table, "delete", uid, old, db)}
    IN  /\ input' = Request(uid, "delete", table, row)
        /\ op' = "delete"
        /\ db' = OnDeleteCascade([db EXCEPT ![table] = @ \ targets])
        /\ output' = Answer(targets, FALSE)
        /\ UNCHANGED <<clock, call, last>>

NextRls ==
    \/ \E uid \in Sessions, table \in Tables : Select(uid, table)
    \/ \E uid \in Sessions, table \in Tables :
           \E row \in RowsOf(table) : Insert(uid, table, row)
    \/ \E uid \in Sessions, table \in Tables :
           \E row \in RowsOf(table) : Update(uid, table, row)
    \/ \E uid \in Sessions, table \in Tables :
           \E row \in RowsOf(table) : Delete(uid, table, row)

SpecRls == InitRls /\ [][NextRls]_vars

(***************************************************************************)
(* Row-level security properties                                           *)
(***************************************************************************)

\* The users a row belongs to: the owner of a hotel or group, and for a
\* membership row or a snapshot the owners of the hotel and group it names.
OwnersOf(table, row, d) ==
    CASE table \in {"hotels", "hotel_groups"} -> {row.user_id}
      [] table = "hotel_group_members" ->
           {hotels.user_id : hotels \in
               {h \in d.hotels : h.id = row.hotel_id}}
           \cup {hotel_groups.user_id : hotel_groups \in
               {g \in d.hotel_groups : g.id = row.group_id}}
      [] table = "review_snapshots" ->
           {hotels.user_id : hotels \in
               {h \in d.hotels : h.id = row.hotel_id}}

\* Every membership row links a hotel and a group of one owner.
MembersLinkOneOwner(d) ==
    \A row \in d.hotel_group_members :
        Cardinality(OwnersOf("hotel_group_members", row, d)) = 1

\* C19: under the row-level-security policies no request reads, inserts,
\* updates or deletes a hotel, group, membership row or snapshot that
\* belongs to the hotel or group of a user other than the one making the
\* request, and every membership row links a hotel and a group of the same
\* owner.
C19_TenantIsolation ==
    [][/\ MembersLinkOneOwner(db')
       /\ \A row \in output'.rows :
              OwnersOf(input'.table, row, db) \cup
              OwnersOf(input'.table, row, db') = {input'.uid}
       /\ \A table \in Tables :
              /\ \A row \in db[table] \ db'[table] :
                     OwnersOf(table, row, db) = {input'.uid}
              /\ \A row \in db'[table] \ db[table] :
                     OwnersOf(table, row, db') = {input'.uid}]_vars

\* A user asked to move a snapshot of a hotel that has a membership row
\* and belongs to another user, and no row was affected.
C19_Witness ==
    /\ op = "update"
    /\ input.table = "review_snapshots"
    /\ input.uid \in Users
    /\ output.rows = {}
    /\ \E row \in db.review_snapshots :
           /\ row.id = input.row.id
           /\ input.uid \notin OwnersOf("review_snapshots", row, db)
           /\ \E member \in db.hotel_group_members :
                  member.hotel_id = row.hotel_id

(***************************************************************************)
(* Route protection: middleware.ts (part_004) and the pages of src/app     *)
(***************************************************************************)

MaxChunks == 3

\* Pieces a pathname is spelled with after its leading "/"; no piece is
\* the beginning of another one, so a prefix of the string is a prefix of
\* its pieces.
Chunks == {"dashboard", "login", "/groups/1", ".png", "_next/static"}

RECURSIVE ChunkSeqs(_)
ChunkSeqs(n) ==
    IF n = 0
    THEN {<<>>}
    ELSE LET shorter == ChunkSeqs(n - 1)
         IN  shorter \cup
             {Append(rest, chunk) : rest \in shorter, chunk \in Chunks}

Pathnames == {<<"/">> \o rest : rest \in ChunkSeqs(MaxChunks)}

Pathname(rest) == <<"/">> \o rest

NoUser == "null"

SessionUsers == {NoUser, "u1"}

startsWith(string, prefix) ==
    /\ Len(string) >= Len(prefix)
    /\ SubSeq(string, 1, Len(prefix)) = prefix

endsWith(string, suffix) ==
    /\ Len(string) >= Len(suffix)
    /\ SubSeq(string, Len(string) - Len(suffix) + 1, Len(string)) = suffix

\* config.matcher: "/((?!_next/static|_next/image|favicon.ico|
\* .*\.(?:svg|png|jpg|jpeg|gif|webp)$).*)"
matcher(pathname) ==
    LET rest == Tail(pathname)
    IN  /\ ~startsWith(rest, <<"_next/static">>)
        /\ ~endsWith(rest, <<".png">>)

\* The page of src/app that answers a pathname.
Page(pathname) ==
    IF pathname = Pathname(<<"login">>) THEN "login/page.tsx"
    ELSE IF pathname = Pathname(<<"dashboard">>) THEN "dashboard/page.tsx"
    ELSE IF /\ startsWith(pathname, Pathname(<<"dashboard", "/groups/1">>))
            /\ \A i \in 4..Len(pathname) : pathname[i] # "/groups/1"
    THEN "dashboard/groups/[id]/page.tsx"
    ELSE "not-found"

NextRequest(pathname, user) == [pathname |-> pathname, user |-> user]

\* new URL(pathname, request.url) with its search parameters
Url(pathname, searchParams) ==
    [pathname |-> pathname, searchParams |-> searchParams]

\* NextResponse.redirect(url)
NextResponseRedirect(url) ==
    [type |-> "redirect", url |-> url, page |-> "none"]

\* NextResponse.next(): the request goes on to the page of its pathname.
NextResponseNext(request) ==
    [type |-> "next", url |-> Url(request.pathname, {}),
     page |-> Page(request.pathname)]

\* updateSession of @/lib/supabase/middleware: the response that lets the
\* request through, and the user of the session.
updateSession(request) ==
    [response |-> NextResponseNext(request), user |-> request.user]

protectedRoutes == {Pathname(<<"dashboard">>)}

middleware(request) ==
    LET session == updateSession(request)
        pathname == request.pathname
        isProtectedRoute ==
            \E route \in protectedRoutes : startsWith(pathname, route)
        isAuthenticated == session.user # NoUser
    IN  IF isProtectedRoute /\ ~isAuthenticated
        THEN NextResponseRedirect(
                 Url(Pathname(<<"login">>), {<<"redirect", pathname>>}))
        ELSE IF pathname = Pathname(<<"login">>) /\ isAuthenticated
        THEN NextResponseRedirect(Url(Pathname(<<"dashboard">>), {}))
        ELSE session.response

InitMiddleware ==
    /\ input = NextRequest(Pathname(<<>>), NoUser)
    /\ output = NextResponseNext(input)
    /\ op = "none"
    /\ FetchQuiet

\* A request whose pathname the matcher selects runs the middleware.
RunMiddleware ==
    /\ \E pathname \in Pathnames, user \in SessionUsers :
          /\ matcher(pathname)
          /\ input' = NextRequest(pathname, user)
          /\ output' = middleware(input')
    /\ op' = "middleware"
    /\ UNCHANGED <<db, clock, call, last>>

\* A request whose pathname the matcher leaves out goes to its page without
\* running the middleware.
SkipMiddleware ==
    /\ \E pathname \in Pathnames, user \in SessionUsers :
          /\ ~matcher(pathname)
          /\ input' = NextRequest(pathname, user)
          /\ output' = NextResponseNext(input')
    /\ op' = "skipped"
    /\ UNCHANGED <<db, clock, call, last>>

NextMiddleware ==
    \/ RunMiddleware
    \/ SkipMiddleware

SpecMiddleware == InitMiddleware /\ [][NextMiddleware]_vars

(***************************************************************************)
(* Route protection properties                                             *)
(***************************************************************************)

\* C20: a request without a user for a pathname that starts with
\* /dashboard is redirected to /login with the pathname in the redirect
\* parameter, a request with a user for /login is redirected to
\* /dashboard, and every other request is passed through to its page.
C20_RouteProtection ==
    LET pathname == input.pathname
        authenticated == input.user # NoUser
    IN  IF startsWith(pathname, Pathname(<<"dashboard">>)) /\ ~authenticated
        THEN output = NextResponseRedirect(
                          Url(Pathname(<<"login">>),
                              {<<"redirect", pathname>>}))
        ELSE IF pathname = Pathname(<<"login">>) /\ authenticated
        THEN output = NextResponseRedirect(
                          Url(Pathname(<<"dashboard">>), {}))
        ELSE output = NextResponseNext(input)

(***************************************************************************)
(* Trend series over snapshots in any order                                *)
(***************************************************************************)

MaxSeries == 3

SeriesTimes == {19, 20, 186}

SeriesKeys == {<<"h1", "google">>, <<"h2", "google">>}

SeriesRows ==
    {[hotel_id |-> k[1], platform |-> k[2],
      rating |-> TrendRating(k[2], t), original_rating |-> TrendRating(k[2], t),
      review_count |-> 100, fetched_at |-> t] :
         k \in SeriesKeys, t \in SeriesTimes}

InitSeries ==
    /\ input \in SubsetsUpTo(SeriesRows, MaxSeries)
    /\ output = Undefined
    /\ op = "none"
    /\ FetchQuiet

Series(name, snapshots, points, rows) ==
    /\ op' = name
    /\ output' = [snapshots |-> snapshots, points |-> points, rows |-> rows]
    /\ UNCHANGED <<input, db, clock, call, last>>

\* chartData on the snapshots in any order
SeriesChartData ==
    /\ op = "none"
    /\ \E snapshots \in AnyOrder(input) :
          Series("chartData", snapshots, chartData(snapshots), <<>>)

\* transformToChartData on the snapshots of h1 in any order
SeriesTransformToChartData ==
    /\ op = "none"
    /\ \E snapshots \in AnyOrder({r \in input : r.hotel_id = "h1"}) :
          Series("transformToChartData", snapshots,
                 transformToChartData(snapshots), <<>>)

\* generateGroupHistoricalCSV on the snapshots in any order
SeriesGenerateGroupHistoricalCSV ==
    /\ op = "none"
    /\ \E snapshots \in AnyOrder(input) :
          Series("generateGroupHistoricalCSV", snapshots, <<>>,
                 generateGroupHistoricalCSV(Hotels, snapshots))

NextSeries ==
    \/ SeriesChartData
    \/ SeriesTransformToChartData
    \/ SeriesGenerateGroupHistoricalCSV

SpecSeries == InitSeries /\ [][NextSeries]_vars

\* C26: the points of a chart come with strictly ascending date, and the
\* lines of the history export with ascending date and strictly ascending
\* date from one aggregate line to the next, for every order of the
\* snapshots.
C26_SeriesAscendingByDate ==
    /\ op \in {"chartData", "transformToChartData"} =>
           \A i \in 1..(Len(output.points) - 1) :
               output.points[i].date < output.points[i + 1].date
    /\ op = "generateGroupHistoricalCSV" =>
           \A i, j \in 1..Len(output.rows) :
               i < j =>
                  /\ output.rows[i].date <= output.rows[j].date
                  /\ (output.rows[i].kind = "aggregate"
                      /\ output.rows[j].kind = "aggregate")
                        => output.rows[i].date < output.rows[j].date

\* two points built from snapshots given newest first
C26_Witness ==
    /\ op = "chartData"
    /\ Len(output.snapshots) = 2
    /\ DateOf(output.snapshots[1].fetched_at)
           > DateOf(output.snapshots[2].fetched_at)
    /\ Len(output.points) = 2

(***************************************************************************)
(* Single-hotel refresh on the dashboard: handleRefreshHotel               *)
(***************************************************************************)

MaxRequests == 2

DashboardHotels == {"h1", "h2", "h3"}

\* refreshingHotelId when no hotel is marked
NoHotelId == "null"

\* requests of handleRefreshHotel under way for a hotel: awaiting the
\* fetch-all answer, or awaiting loadHotels after a successful answer
RequestsOf(state, hotel) ==
    state.fetching[hotel] + state.loading[hotel]

\* the Fetch Reviews control of a hotel: disabled={refreshingHotelId === hotel.id}
RefreshDisabled(state, hotel) == state.refreshingHotelId = hotel

InitDashboard ==
    /\ input = DashboardHotels
    /\ output = [refreshingHotelId |-> NoHotelId,
                 fetching |-> [h \in DashboardHotels |-> 0],
                 loading |-> [h \in DashboardHotels |-> 0]]
    /\ op = "none"
    /\ FetchQuiet

\* a click on the control of a hotel: handleRefreshHotel up to its fetch
ClickRefreshHotel ==
    /\ \E hotel \in DashboardHotels :
          /\ ~RefreshDisabled(output, hotel)
          /\ RequestsOf(output, hotel) < MaxRequests
          /\ output' = [output EXCEPT !.refreshingHotelId = hotel,
                                      !.fetching[hotel] = @ + 1]
    /\ op' = "handleRefreshHotel"
    /\ UNCHANGED <<input, db, clock, call, last>>

\* the fetch-all answer is a success: await loadHotels()
AnswerSuccess ==
    /\ \E hotel \in DashboardHotels :
          /\ output.fetching[hotel] > 0
          /\ output' = [output EXCEPT !.fetching[hotel] = @ - 1,
                                      !.loading[hotel] = @ + 1]
    /\ op' = "loadHotels"
    /\ UNCHANGED <<input, db, clock, call, last>>

\* the fetch-all answer is an error or the fetch throws: catch, finally
AnswerFailure ==
    /\ \E hotel \in DashboardHotels :
          /\ output.fetching[hotel] > 0
          /\ output' = [output EXCEPT !.fetching[hotel] = @ - 1,
                                      !.refreshingHotelId = NoHotelId]
    /\ op' = "catch"
    /\ UNCHANGED <<input, db, clock, call, last>>

\* loadHotels has returned: finally
FinishRefreshHotel ==
    /\ \E hotel \in DashboardHotels :
          /\ output.loading[hotel] > 0
          /\ output' = [output EXCEPT !.loading[hotel] = @ - 1,
                                      !.refreshingHotelId = NoHotelId]
    /\ op' = "finally"
    /\ UNCHANGED <<input, db, clock, call, last>>

NextDashboard ==
    \/ ClickRefreshHotel
    \/ AnswerSuccess
    \/ AnswerFailure
    \/ FinishRefreshHotel

SpecDashboard == InitDashboard /\ [][NextDashboard]_vars

\* C28: while a refresh request of a hotel is under way the refresh control
\* of that hotel is disabled, so the hotel never has two requests under way,
\* whatever refreshes of other hotels start or finish in the meantime.
C28_OneRefreshPerHotel ==
    \A hotel \in DashboardHotels :
        /\ RequestsOf(output, hotel) <= 1
        /\ RequestsOf(output, hotel) = 1 => RefreshDisabled(output, hotel)

(***************************************************************************)
(* Group refresh loop: handleRefreshAll (group page) and handleRefresh     *)
(* (GroupCard).  input is the handler and its hotels, op the position of   *)
(* the handler, output its local variables and the isRefreshing state.     *)
(***************************************************************************)

MaxGroupHotels == 3

\* if (hotels.length > 50): ask before refreshing
ConfirmAbove == 50

GroupHotelLists ==
    {[k \in 1..n |-> k] : n \in (0..MaxGroupHotels) \cup {ConfirmAbove + 1}}

\* what the awaited fetch of one hotel comes to: data.success, an answer
\* without success, or an exception of fetch or response.json()
FetchOutcomes == {"success", "no success", "throws"}

\* errors stands for errors.length, attempts lists the hotels fetched
LoopState(i, attempts, successCount, errors, isRefreshing) ==
    [i |-> i, attempts |-> attempts, successCount |-> successCount,
     errors |-> errors, isRefreshing |-> isRefreshing]

\* variant of the loop body without the inner try/catch: an exception
\* leaves the loop for the outer catch and finally
settleFetch_ThrowLeavesLoop(state, hotels, outcome) ==
    IF outcome = "throws"
    THEN [state |-> [state EXCEPT !.isRefreshing = FALSE], op |-> "done"]
    ELSE [state |-> IF outcome = "success"
                    THEN [state EXCEPT !.successCount = @ + 1]
                    ELSE [state EXCEPT !.errors = @ + 1],
          op |-> IF state.i < Len(hotels) - 1 THEN "sleeping" ELSE "reloading"]

\* the loop body after the await: count the success or record the error,
\* then wait before the next hotel, except after the last one
settleFetch(state, hotels, outcome) ==
    [state |-> IF outcome = "success"
               THEN [state EXCEPT !.successCount = @ + 1]
               ELSE [state EXCEPT !.errors = @ + 1],
     op |-> IF state.i < Len(hotels) - 1 THEN "sleeping" ELSE "reloading"]

InitGroupRefresh ==
    /\ input \in [site : SequentialSites, hotels : GroupHotelLists]
    /\ output = LoopState(0, <<>>, 0, 0, FALSE)
    /\ op = "start"
    /\ FetchQuiet

\* the handler up to its loop: return without hotels, ask for large groups,
\* else setIsRefreshing(true)
BeginGroupRefresh ==
    /\ op = "start"
    /\ IF Len(input.hotels) = 0
       THEN op' = "returned" /\ output' = output
       ELSE IF Len(input.hotels) > ConfirmAbove
       THEN op' = "confirm" /\ output' = output
       ELSE op' = "loop" /\ output' = [output EXCEPT !.isRefreshing = TRUE]
    /\ UNCHANGED <<input, db, clock, call, last>>

\* the answer to confirm(...)
AnswerConfirm ==
    /\ op = "confirm"
    /\ \E confirmed \in BOOLEAN :
          IF confirmed
          THEN op' = "loop" /\ output' = [output EXCEPT !.isRefreshing = TRUE]
          ELSE op' = "returned" /\ output' = output
    /\ UNCHANGED <<input, db, clock, call, last>>

\* await fetch('/api/reviews/fetch-all') for hotels[i]
FetchHotel ==
    /\ op = "loop"
    /\ output' = [output EXCEPT
                     !.attempts = Append(@, input.hotels[output.i + 1])]
    /\ op' = "awaiting"
    /\ UNCHANGED <<input, db, clock, call, last>>

\* the awaited fetch settles
SettleFetch ==
    /\ op = "awaiting"
    /\ \E outcome \in FetchOutcomes :
          LET next == settleFetch(output, input.hotels, outcome)
          IN  output' = next.state /\ op' = next.op
    /\ UNCHANGED <<input, db, clock, call, last>>

\* the delay is over: i++
NextHotel ==
    /\ op = "sleeping"
    /\ output' = [output EXCEPT !.i = @ + 1]
    /\ op' = "loop"
    /\ UNCHANGED <<input, db, clock, call, last>>

\* after the loop: the reload returns or throws, the toast, and finally
\* setIsRefreshing(false)
ReloadAndFinish ==
    /\ op = "reloading"
    /\ \E reloadThrows \in BOOLEAN :
          output' = [output EXCEPT !.isRefreshing = FALSE]
    /\ op' = "done"
    /\ UNCHANGED <<input, db, clock, call, last>>

NextGroupRefresh ==
    \/ BeginGroupRefresh
    \/ AnswerConfirm
    \/ FetchHotel
    \/ SettleFetch
    \/ NextHotel
    \/ ReloadAndFinish

SpecGroupRefresh == InitGroupRefresh /\ [][NextGroupRefresh]_vars

\* C29: a group refresh fetches the hotels of the group one after the
\* other in list order, each once, and goes on after a failure; when it is
\* over every hotel has been fetched, successCount plus the number of
\* errors is the number of hotels, and isRefreshing is false, as it is when
\* the handler returns before the loop.
C29_EveryHotelOnce ==
    /\ output.attempts = SubSeq(input.hotels, 1, Len(output.attempts))
    /\ output.successCount + output.errors =
           IF op = "awaiting" THEN Len(output.attempts) - 1
           ELSE Len(output.attempts)
    /\ op = "done" =>
           /\ output.attempts = input.hotels
           /\ output.successCount + output.errors = Len(input.hotels)
           /\ ~output.isRefreshing
    /\ op = "returned" =>
           /\ output.attempts = <<>>
           /\ ~output.isRefreshing

\* a refresh of three hotels is over, the first two fetches failed
C29_Witness ==
    /\ op = "done"
    /\ Len(input.hotels) = 3
    /\ output.errors = 2
    /\ output.successCount = 1

====
